---- MODULE Spec2Model ----
(***************************************************************************)
(* Event-impact analytics of the UK web change tracker: the window-stats   *)
(* request handler (app/api/timeseries.py), compute_window_stats and its   *)
(* helpers (app/analytics/windows.py), and the Mongo collections they read *)
(* (written by app/ingest/cloudflare.py).                                  *)
(*                                                                         *)
(* Values are floats in the code; here they are exact rationals <<n, d>>   *)
(* in lowest terms with d > 0.  Timestamps are ISO-8601 strings in the     *)
(* code, compared as strings by Mongo; here a timestamp is the tuple       *)
(* <<year, month, day, hour, minute, second, suffix>> of its fixed-width   *)
(* fields, suffix 0 for a string that ends after the seconds and 1 for a   *)
(* trailing "Z", compared field by field as the string is compared         *)
(* character by character.                                                 *)
(***************************************************************************)
EXTENDS Integers, Sequences, FiniteSets, TLC

\* Python's None, and an absent or empty query parameter (request.args.get
\* gives None, and the handlers test "if not v"): the empty tuple, which no
\* rational, datetime or timestamp equals.
None == <<>>

\* A raised exception, where an operator stands for code that may raise.
ValueError == <<"ValueError">>
OverflowError == <<"OverflowError">>
TypeError == <<"TypeError">>

(***************************************************************************)
(* Rationals                                                               *)
(***************************************************************************)
Abs(n) == IF n < 0 THEN -n ELSE n

RECURSIVE Gcd(_, _)
Gcd(a, b) == IF b = 0 THEN a ELSE Gcd(b, a % b)

\* n/d in lowest terms, d # 0
Rat(n, d) ==
    LET g == Gcd(Abs(n), Abs(d))
        s == IF d < 0 THEN -1 ELSE 1
    IN  <<(s * n) \div g, (s * d) \div g>>

RInt(n) == <<n, 1>>
RAdd(a, b) == Rat(a[1] * b[2] + b[1] * a[2], a[2] * b[2])
RSub(a, b) == Rat(a[1] * b[2] - b[1] * a[2], a[2] * b[2])
RMul(a, b) == Rat(a[1] * b[1], a[2] * b[2])
RDiv(a, b) == Rat(a[1] * b[2], a[2] * b[1])
RIsZero(a) == a[1] = 0

RECURSIVE RSum(_)
RSum(s) == IF s = <<>> THEN RInt(0) ELSE RAdd(Head(s), RSum(Tail(s)))

(***************************************************************************)
(* datetime: fromisoformat, timedelta arithmetic, isoformat                *)
(***************************************************************************)
MINYEAR == 1
MAXYEAR == 9999
SecondsPerDay == 86400

IsLeap(y) == y % 4 = 0 /\ (y % 100 # 0 \/ y % 400 = 0)

DaysInMonth(y, m) ==
    IF m = 2 THEN (IF IsLeap(y) THEN 29 ELSE 28)
    ELSE IF m \in {4, 6, 9, 11} THEN 30 ELSE 31

DaysBeforeYear(y) ==
    LET p == y - 1 IN p * 365 + p \div 4 - p \div 100 + p \div 400

RECURSIVE DaysBeforeMonth(_, _)
DaysBeforeMonth(y, m) ==
    IF m = 1 THEN 0 ELSE DaysBeforeMonth(y, m - 1) + DaysInMonth(y, m - 1)

\* date.toordinal(): 0001-01-01 is day 1
ToOrdinal(y, m, d) == DaysBeforeYear(y) + DaysBeforeMonth(y, m) + d

MaxOrdinal == ToOrdinal(MAXYEAR, 12, 31)

\* date.fromordinal()
FromOrdinal(n) ==
    LET y == CHOOSE yy \in ((n \div 366) + 1)..((n \div 365) + 1) :
                 DaysBeforeYear(yy) < n /\ n <= DaysBeforeYear(yy + 1)
        r == n - DaysBeforeYear(y)
        m == CHOOSE mm \in 1..12 :
                 DaysBeforeMonth(y, mm) < r /\ r <= DaysBeforeMonth(y, mm) + DaysInMonth(y, mm)
    IN  <<y, m, r - DaysBeforeMonth(y, m)>>

\* datetime.fromisoformat(event) of a date string "YYYY-MM-DD", given as its
\* fields <<y, m, d>>: midnight of that day, no timezone; ValueError when the
\* fields name no day of the calendar.  A datetime is <<ordinal, second of day>>.
fromisoformat(event) ==
    IF /\ event[1] \in MINYEAR..MAXYEAR
       /\ event[2] \in 1..12
       /\ event[3] \in 1..DaysInMonth(event[1], event[2])
    THEN <<ToOrdinal(event[1], event[2], event[3]), 0>>
    ELSE ValueError

\* dt + timedelta(days, seconds); OverflowError outside year 1..9999
dt_add(dt, days, seconds) ==
    LET total == dt[2] + seconds
        carry == total \div SecondsPerDay
        sec   == total % SecondsPerDay
        ord   == dt[1] + days + carry
    IN  IF ord < 1 \/ ord > MaxOrdinal THEN OverflowError ELSE <<ord, sec>>

\* dt.isoformat() of a naive datetime without microseconds:
\* "YYYY-MM-DDTHH:MM:SS", no suffix
isoformat(dt) ==
    LET ymd == FromOrdinal(dt[1])
    IN  <<ymd[1], ymd[2], ymd[3],
          dt[2] \div 3600, (dt[2] % 3600) \div 60, dt[2] % 60, 0>>

\* String order of two timestamps: field by field, a string that ends
\* earlier (suffix 0) before its extension (suffix 1).
RECURSIVE TsLtFrom(_, _, _)
TsLtFrom(a, b, i) ==
    IF i > Len(a) THEN FALSE
    ELSE IF a[i] # b[i] THEN a[i] < b[i]
    ELSE TsLtFrom(a, b, i + 1)

TsLt(a, b) == TsLtFrom(a, b, 1)
TsLe(a, b) == a = b \/ TsLt(a, b)

(***************************************************************************)
(* The Mongo collections                                                   *)
(***************************************************************************)
\* A document of a time-series collection is
\*   [coll, country, metric, ts, value]
\* (coll is the collection that holds it).

upper(country) ==
    CASE country = "gb" -> "GB"
      [] country = "ie" -> "IE"
      [] country = "nl" -> "NL"
      [] OTHER -> country

\* The documents of S as a list in ascending ts: cursor.sort("ts", 1),
\* projected to {ts, value}.
RECURSIVE SortByTs(_)
SortByTs(S) ==
    IF S = {} THEN <<>>
    ELSE LET first == CHOOSE p \in S : \A q \in S : TsLe(p.ts, q.ts)
         IN  <<[ts |-> first.ts, value |-> first.value]>> \o SortByTs(S \ {first})

\* analytics/windows.py _find_series: always the traffic_ts collection.
_find_series_in(db, country, metric, since_iso, until_iso) ==
    SortByTs({p \in db : /\ p.coll = "traffic_ts"
                         /\ p.country = upper(country)
                         /\ p.metric = metric
                         /\ TsLe(since_iso, p.ts)
                         /\ TsLe(p.ts, until_iso)})

\* api/timeseries.py _find_series: the collection follows the metric's prefix.
CollectionOf(metric) ==
    CASE metric = "l3_bytes_target" -> "l3_ts"
      [] metric = "bot_traffic" -> "bot_traffic"
      [] OTHER -> "traffic_ts"

api_find_series_in(db, country, metric, since_iso, until_iso) ==
    SortByTs({p \in db : /\ p.coll = CollectionOf(metric)
                         /\ p.country = upper(country)
                         /\ p.metric = metric
                         /\ (since_iso # None => TsLe(since_iso, p.ts))
                         /\ (until_iso # None => TsLe(p.ts, until_iso))})

(***************************************************************************)
(* analytics/windows.py: the statistics                                    *)
(***************************************************************************)
\* [p["value"] for p in series], as floats
Values(series) == [i \in 1..Len(series) |-> RInt(series[i].value)]

\* _mean with the empty list averaged to 0 instead of None
_mean_zero_if_empty(vals) ==
    IF vals = <<>> THEN RInt(0) ELSE RDiv(RSum(vals), RInt(Len(vals)))

\* lines 33-39; np.mean of a non-empty list
_mean(vals) ==
    IF vals = <<>> THEN None ELSE RDiv(RSum(vals), RInt(Len(vals)))

\* pct_delta taken relative to the post-window mean
pct_delta_by_post(mean_pre, mean_post) ==
    IF mean_post # None /\ ~RIsZero(mean_post)
    THEN (IF mean_pre # None THEN RDiv(RSub(mean_post, mean_pre), mean_post) ELSE None)
    ELSE None

\* lines 69-71; a Python float is falsy exactly when it is 0
pct_delta_of(mean_pre, mean_post) ==
    IF mean_pre # None /\ ~RIsZero(mean_pre)
    THEN (IF mean_post # None THEN RDiv(RSub(mean_post, mean_pre), mean_pre) ELSE None)
    ELSE None

\* lines 57-61: the four window bounds, or the exception the datetime
\* arithmetic raises (exc = None when none is raised).
NoWindows(exc) ==
    [exc |-> exc, pre_since |-> None, pre_until |-> None,
     post_since |-> None, post_until |-> None]

\* the windows with the pre-window ending a whole day before the event
windows_of_whole_days(event, pre_days, post_days) ==
    LET event_dt == fromisoformat(event)
    IN  IF event_dt = ValueError THEN NoWindows(ValueError)
        ELSE LET a == dt_add(event_dt, -pre_days, 0)
                 b == dt_add(event_dt, -1, 0)
                 c == dt_add(event_dt, post_days, 0)
             IN  IF OverflowError \in {a, b, c} THEN NoWindows(OverflowError)
                 ELSE [exc        |-> None,
                       pre_since  |-> isoformat(a),
                       pre_until  |-> isoformat(b),
                       post_since |-> isoformat(event_dt),
                       post_until |-> isoformat(c)]

windows_of(event, pre_days, post_days) ==
    LET event_dt == fromisoformat(event)
    IN  IF event_dt = ValueError THEN NoWindows(ValueError)
        ELSE LET a == dt_add(event_dt, -pre_days, 0)
                 b == dt_add(event_dt, 0, -1)
                 c == dt_add(event_dt, post_days, 0)
             IN  IF OverflowError \in {a, b, c} THEN NoWindows(OverflowError)
                 ELSE [exc        |-> None,
                       pre_since  |-> isoformat(a),
                       pre_until  |-> isoformat(b),
                       post_since |-> isoformat(event_dt),
                       post_until |-> isoformat(c)]

\* lines 22-30: one row per timestamp of any input series, one slot per
\* input series; a slot is the series' value at that timestamp or None.
\* kv = {pt["ts"]: pt["value"]}: the last point of a series at a timestamp wins.
KvOf(series, ts) ==
    LET hits == {i \in 1..Len(series) : series[i].ts = ts}
    IN  IF hits = {} THEN None
        ELSE RInt(series[CHOOSE i \in hits : \A j \in hits : j <= i].value)

\* the value of a series at ts or, without a point there, at the latest
\* timestamp before it
FilledOf(series, ts) ==
    LET before == {i \in 1..Len(series) :
                      series[i].ts[1] = ts[1] /\ series[i].ts[2] = ts[2]
                      /\ (series[i].ts[3] < ts[3]
                          \/ (series[i].ts[3] = ts[3] /\ series[i].ts[4] <= ts[4]))}
    IN  IF before = {} THEN None
        ELSE RInt(series[CHOOSE i \in before : \A j \in before : j <= i].value)

\* _align_by_ts filling a slot from the nearest earlier point of the series
_align_by_ts_fill_forward(series_list) ==
    LET all_ts == UNION {{series_list[k][i].ts : i \in 1..Len(series_list[k])} :
                             k \in 1..Len(series_list)}
    IN  [ts \in all_ts |-> [idx \in 1..Len(series_list) |-> FilledOf(series_list[idx], ts)]]

\* _align_by_ts giving a frame of one row of None when no input has a point
_align_by_ts_default_row(series_list) ==
    LET all_ts == UNION {{series_list[k][i].ts : i \in 1..Len(series_list[k])} :
                             k \in 1..Len(series_list)}
    IN  IF all_ts = {}
        THEN [ts \in {<<1970, 1, 1, 0, 0, 0, 0>>} |-> [idx \in 1..Len(series_list) |-> None]]
        ELSE [ts \in all_ts |-> [idx \in 1..Len(series_list) |-> KvOf(series_list[idx], ts)]]

_align_by_ts(series_list) ==
    LET all_ts == UNION {{series_list[k][i].ts : i \in 1..Len(series_list[k])} :
                             k \in 1..Len(series_list)}
    IN  [ts \in all_ts |-> [idx \in 1..Len(series_list) |-> KvOf(series_list[idx], ts)]]

\* sorted(S) of a set of timestamps, as a list
RECURSIVE SortedTs(_)
SortedTs(S) ==
    IF S = {} THEN <<>>
    ELSE LET first == CHOOSE t \in S : \A u \in S : TsLe(t, u)
         IN  <<first>> \o SortedTs(S \ {first})

\* lines 23-24 and 83: the rows of a frame in the order aligned.items() gives
\* them, the insertion order of sorted(all_ts)
aligned_items(aligned) ==
    [k \in 1..Len(SortedTs(DOMAIN aligned)) |->
        [ts |-> SortedTs(DOMAIN aligned)[k], vect |-> aligned[SortedTs(DOMAIN aligned)[k]]]]

\* the sub-list of the values of vect that are not None
RECURSIVE Present(_)
Present(vect) ==
    IF vect = <<>> THEN <<>>
    ELSE (IF Head(vect) = None THEN <<>> ELSE <<Head(vect)>>) \o Present(Tail(vect))

\* the diffs taking a control without a point at the row for a control at 0
RECURSIVE DiffsOf_zero_fill(_, _)
DiffsOf_zero_fill(aligned, tss) ==
    IF tss = <<>> THEN <<>>
    ELSE LET vect  == aligned[Head(tss)]
             base  == vect[1]
             ctrls == [i \in 1..(Len(vect) - 1) |->
                          IF vect[i + 1] = None THEN RInt(0) ELSE vect[i + 1]]
         IN  (IF base = None \/ Present(Tail(vect)) = <<>> THEN <<>>
              ELSE <<RSub(base, _mean(ctrls))>>) \o DiffsOf_zero_fill(aligned, Tail(tss))

\* lines 82-89: the diffs subject - mean(present controls), row by row
RECURSIVE DiffsOf(_, _)
DiffsOf(aligned, tss) ==
    IF tss = <<>> THEN <<>>
    ELSE LET vect  == aligned[Head(tss)]
             base  == vect[1]
             ctrls == Present(Tail(vect))
         IN  (IF base = None \/ ctrls = <<>> THEN <<>>
              ELSE <<RSub(base, _mean(ctrls))>>) \o DiffsOf(aligned, Tail(tss))

\* np.std(diffs) squared: the population variance (divide by N)
Variance(diffs) ==
    LET m == _mean(diffs)
    IN  _mean([i \in 1..Len(diffs) |-> RMul(RSub(diffs[i], m), RSub(diffs[i], m))])

\* _period_stats giving mean 0 and deviation 0 for an empty diff series
_period_stats_zero_if_empty(series_list) ==
    LET aligned == _align_by_ts(series_list)
        diffs   == DiffsOf(aligned, SortedTs(DOMAIN aligned))
    IN  IF diffs = <<>> THEN <<RInt(0), RInt(0)>> ELSE <<_mean(diffs), Variance(diffs)>>

\* lines 80-92: None, or <<mean of the diffs, their population variance>>
\* (the code returns the standard deviation, the variance's square root)
_period_stats(series_list) ==
    LET aligned == _align_by_ts(series_list)
        diffs   == DiffsOf(aligned, SortedTs(DOMAIN aligned))
    IN  IF diffs = <<>> THEN None ELSE <<_mean(diffs), Variance(diffs)>>

\* lines 94-101: None, or the pair <<post_mean_diff - pre_mean_diff, pre
\* variance>> standing for their quotient delta / sqrt(variance); pre_std > 0
\* exactly when the variance is > 0
z_score_of(pre_res, post_res) ==
    IF pre_res # None /\ post_res # None /\ pre_res[2][1] > 0
    THEN <<RSub(post_res[1], pre_res[1]), pre_res[2]>>
    ELSE None

(***************************************************************************)
(* The same statistics in floating point.  np.mean and np.std compute in   *)
(* binary floating point, every operation rounded to the nearest           *)
(* representable number, ties to the even significand.  The code's floats  *)
(* carry 53 significant bits; the floats here carry Precision bits, and    *)
(* their exponent is unbounded (no overflow or underflow).  A float is the *)
(* rational it represents.                                                 *)
(***************************************************************************)
Precision == 7

RECURSIVE Pow2(_)
Pow2(k) == IF k = 0 THEN 1 ELSE 2 * Pow2(k - 1)

\* n/d, n >= 0 and d > 0, rounded to an integer, ties to even
RoundHalfEven(n, d) ==
    LET q == n \div d
        r == n % d
    IN  IF 2 * r < d THEN q
        ELSE IF 2 * r > d THEN q + 1
        ELSE IF q % 2 = 0 THEN q ELSE q + 1

\* n/d > 0 scaled by a power of two into [2^(Precision-1), 2^Precision):
\* the exponent k and the scaled fraction num/den = (n/d) / 2^k
RECURSIVE Normalize(_, _, _)
Normalize(n, d, k) ==
    IF n < Pow2(Precision - 1) * d THEN Normalize(2 * n, d, k - 1)
    ELSE IF n >= Pow2(Precision) * d THEN Normalize(n, 2 * d, k + 1)
    ELSE [k |-> k, num |-> n, den |-> d]

\* the float nearest to the rational x: m * 2^k with Precision bits in m
FRound(x) ==
    IF x[1] = 0 THEN x
    ELSE LET f == Normalize(Abs(x[1]), x[2], 0)
             m == RoundHalfEven(f.num, f.den)
             sm == IF x[1] < 0 THEN 0 - m ELSE m
         IN  IF f.k < 0 THEN Rat(sm, Pow2(0 - f.k)) ELSE Rat(sm * Pow2(f.k), 1)

fadd(a, b) == FRound(RAdd(a, b))
fsub(a, b) == FRound(RSub(a, b))
fmul(a, b) == FRound(RMul(a, b))
fdiv(a, b) == FRound(RDiv(a, b))

\* np.add.reduce of fewer than 8 floats: one accumulator, left to right
RECURSIVE np_sum_from(_, _)
np_sum_from(acc, vals) ==
    IF vals = <<>> THEN acc ELSE np_sum_from(fadd(acc, Head(vals)), Tail(vals))

np_mean(vals) == fdiv(np_sum_from(RInt(0), vals), RInt(Len(vals)))

\* np.std(vals) squared, before the square root: the mean of the squared
\* deviations from np.mean(vals)
np_var(vals) ==
    LET m == np_mean(vals)
        x == [i \in 1..Len(vals) |-> fsub(vals[i], m)]
    IN  np_mean([i \in 1..Len(vals) |-> fmul(x[i], x[i])])

\* lines 90-92 on the diffs of a window
stats_of_diffs(ds) ==
    IF ds = <<>> THEN None ELSE <<np_mean(ds), np_var(ds)>>

(***************************************************************************)
(* ingest/cloudflare.py: writing the collections                           *)
(***************************************************************************)
\* the upsert counted only when it modified a stored document
UpsertOne_count_modified_only(acc, coll, ctry, metric, p) ==
    LET hits == {d \in acc.db : /\ d.coll = coll /\ d.country = ctry
                                /\ d.metric = metric /\ d.ts = p.ts}
        doc  == [coll |-> coll, country |-> ctry, metric |-> metric,
                 ts |-> p.ts, value |-> p.value]
    IN  IF hits = {} THEN [db |-> acc.db \cup {doc}, upserted |-> acc.upserted]
        ELSE LET old == CHOOSE d \in hits : TRUE
             IN  [db |-> (acc.db \ {old}) \cup {doc},
                  upserted |-> acc.upserted + (IF old.value # p.value THEN 1 ELSE 0)]

\* the upsert leaving a stored document as it is (first write wins)
UpsertOne_keep_first(acc, coll, ctry, metric, p) ==
    LET hits == {d \in acc.db : /\ d.coll = coll /\ d.country = ctry
                                /\ d.metric = metric /\ d.ts = p.ts}
        doc  == [coll |-> coll, country |-> ctry, metric |-> metric,
                 ts |-> p.ts, value |-> p.value]
    IN  IF hits = {} THEN [db |-> acc.db \cup {doc}, upserted |-> acc.upserted + 1]
        ELSE acc

\* the upsert counted whenever it matched or inserted a document
UpsertOne_count_matched(acc, coll, ctry, metric, p) ==
    LET hits == {d \in acc.db : /\ d.coll = coll /\ d.country = ctry
                                /\ d.metric = metric /\ d.ts = p.ts}
        doc  == [coll |-> coll, country |-> ctry, metric |-> metric,
                 ts |-> p.ts, value |-> p.value]
    IN  [db |-> (acc.db \ hits) \cup {doc}, upserted |-> acc.upserted + 1]

\* lines 126-132: update_one({country, metric, ts}, {$set: {value}}, upsert)
\* on collection coll; counted when a document was inserted or modified.
UpsertOne(acc, coll, ctry, metric, p) ==
    LET hits == {d \in acc.db : /\ d.coll = coll /\ d.country = ctry
                                /\ d.metric = metric /\ d.ts = p.ts}
        doc  == [coll |-> coll, country |-> ctry, metric |-> metric,
                 ts |-> p.ts, value |-> p.value]
    IN  IF hits = {} THEN [db |-> acc.db \cup {doc}, upserted |-> acc.upserted + 1]
        ELSE LET old == CHOOSE d \in hits : TRUE
             IN  [db |-> (acc.db \ {old}) \cup {doc},
                  upserted |-> acc.upserted + (IF old.value # p.value THEN 1 ELSE 0)]

\* lines 115-136: the points of data in order.  Every point the parser
\* hands over has a ts and a value (lines 73, 85, 106), so the guard of
\* line 123 never skips one.
RECURSIVE StoreFrom(_, _, _, _, _)
StoreFrom(acc, coll, ctry, metric, data) ==
    IF data = <<>> THEN acc
    ELSE StoreFrom(UpsertOne(acc, coll, ctry, metric, Head(data)),
                   coll, ctry, metric, Tail(data))

_store_timeseries_data(db0, collection_name, country, metric, data) ==
    StoreFrom([db |-> db0, upserted |-> 0], collection_name, upper(country), metric, data)

\* lines 120-135 when update_one raises for the points at the timestamps of
\* unwritable: the exception is swallowed, the point is neither stored nor
\* counted, and the loop goes on
RECURSIVE StoreThrough(_, _, _, _, _, _)
StoreThrough(acc, coll, ctry, metric, data, unwritable) ==
    IF data = <<>> THEN acc
    ELSE StoreThrough(
             IF Head(data).ts \in unwritable THEN acc
             ELSE UpsertOne(acc, coll, ctry, metric, Head(data)),
             coll, ctry, metric, Tail(data), unwritable)

(***************************************************************************)
(* ingest/cloudflare.py: one ingest run, from the upstream exchange to the *)
(* store.  A value of the upstream JSON is a number, a text that is no     *)
(* number, or null; a timestamp is a string.                               *)
(***************************************************************************)
RawNum(n) == [kind |-> "num", v |-> n]
RawText == [kind |-> "text", v |-> 0]
RawNull == [kind |-> "null", v |-> 0]

\* result.main.timestamps/values ("main"), result.timestamps/values ("root"),
\* result.series or result.timeseries, a list of rows {t, value}, or a result
\* of no known shape ("none")
Columns(shape, timestamps, values) ==
    [shape |-> shape, timestamps |-> timestamps, values |-> values, rows |-> <<>>]
Rows(shape, rows) ==
    [shape |-> shape, timestamps |-> <<>>, values |-> <<>>, rows |-> rows]
NoResult == [shape |-> "none", timestamps |-> <<>>, values |-> <<>>, rows |-> <<>>]

\* the string "None", as a timestamp: it sorts after every digit
NoneText == <<10000, 0, 0, 0, 0, 0, 0>>

\* str(t): a string is itself, and str(None) is "None"
str(t) == IF t = None THEN NoneText ELSE t

\* lines 71-75 and 83-87: zip(ts, vals), a pair kept when float(v) succeeds;
\* the timestamp goes through str() whatever it is
RECURSIVE ParseColumns(_, _)
ParseColumns(ts, vals) ==
    IF ts = <<>> \/ vals = <<>> THEN <<>>
    ELSE (IF Head(vals).kind = "num"
          THEN <<[ts |-> str(Head(ts)), value |-> Head(vals).v]>>
          ELSE <<>>) \o ParseColumns(Tail(ts), Tail(vals))

\* a row {t, value} and a row {t, requests: {normalized}} of result.series
Row(t, value) == [t |-> t, value |-> value, normalized |-> RawNull]
RequestsRow(t, normalized) == [t |-> t, value |-> RawNull, normalized |-> normalized]

\* lines 99-103: row["value"], or for a row without one
\* requests.normalized or requests.value: a normalized of 0 is falsy and
\* gives way to requests.value, which the row does not have
ValOf(row) ==
    IF row.value.kind # "null" THEN row.value
    ELSE IF row.normalized.kind = "text"
            \/ (row.normalized.kind = "num" /\ row.normalized.v # 0)
         THEN row.normalized
         ELSE RawNull

\* lines 95-108: a row kept when it has a timestamp and a value float() takes
RECURSIVE ParseRows(_)
ParseRows(rows) ==
    IF rows = <<>> THEN <<>>
    ELSE (IF Head(rows).t # None /\ ValOf(Head(rows)).kind = "num"
          THEN <<[ts |-> str(Head(rows).t), value |-> ValOf(Head(rows)).v]>>
          ELSE <<>>) \o ParseRows(Tail(rows))

\* lines 54-112
_parse_timeseries_data(result) ==
    CASE result.shape \in {"main", "root"} -> ParseColumns(result.timestamps, result.values)
      [] result.shape \in {"series", "timeseries"} -> ParseRows(result.rows)
      [] OTHER -> <<>>

\* direction.lower() after "l3_bytes_" (line 298)
L3Metric(direction) ==
    CASE direction \in {"target", "TARGET"} -> "l3_bytes_target"
      [] direction \in {"origin", "ORIGIN"} -> "l3_bytes_origin"
      [] OTHER -> "l3_bytes_"

\* the collection and the metric an ingest function writes
TargetOf(fn, direction) ==
    CASE fn = "fetch_http_requests" -> [coll |-> "traffic_ts", metric |-> "http_requests_norm"]
      [] fn = "fetch_l3" -> [coll |-> "l3_ts", metric |-> L3Metric(direction)]
      [] OTHER -> [coll |-> "bot_traffic", metric |-> "bot_traffic"]

RuntimeError == <<"RuntimeError">>

\* No upstream exchange
NoUpstream == [first |-> "ok", second |-> "ok", result |-> NoResult]

NoIngest ==
    [done |-> FALSE, runs |-> 0, fn |-> "", country |-> "", direction |-> "",
     up |-> NoUpstream, before |-> {}, requests |-> 0, sent |-> <<>>,
     returned |-> 0, raised |-> None]

\* the date parameters of the first request (lines 151-152, 280-281, 324-325)
\* and of the fallback, after params.pop and params["dateRange"] = ...
\* (lines 164-166, 291-292, 335-336)
FirstParams == {"dateStart", "dateEnd"}
FallbackParams == (FirstParams \ {"dateStart", "dateEnd"}) \cup {"dateRange"}

\* an ingest run giving up after the first failed request
ingest_run_no_fallback(db0, fn, country, direction, up) ==
    LET target == TargetOf(fn, direction)
        stored == _store_timeseries_data(db0, target.coll, country, target.metric,
                                         _parse_timeseries_data(up.result))
        run == [done |-> TRUE, runs |-> 0, fn |-> fn, country |-> country,
                direction |-> direction, up |-> up, before |-> db0, requests |-> 1,
                sent |-> <<FirstParams>>, returned |-> 0, raised |-> None]
    IN  IF up.first = "ok"
        THEN [db |-> stored.db, run |-> [run EXCEPT !.returned = stored.upserted]]
        ELSE [db |-> db0, run |-> [run EXCEPT !.raised = RuntimeError]]

\* fetch_http_requests (lines 142-172), fetch_l3 (lines 362-365, 269-299) and
\* fetch_bot_traffic (lines 315-342):
\* the request with dateStart/dateEnd, on its failure the request with
\* dateRange, and the parsed result stored; up.first and up.second tell
\* whether _make_request returns the result or raises.
ingest_run(db0, fn, country, direction, up) ==
    LET target == TargetOf(fn, direction)
        stored == _store_timeseries_data(db0, target.coll, country, target.metric,
                                         _parse_timeseries_data(up.result))
        run == [done |-> TRUE, runs |-> 0, fn |-> fn, country |-> country,
                direction |-> direction, up |-> up, before |-> db0, requests |-> 1,
                sent |-> <<FirstParams>>, returned |-> 0, raised |-> None]
        again == [run EXCEPT !.requests = 2, !.sent = <<FirstParams, FallbackParams>>]
    IN  IF up.first = "ok"
        THEN [db |-> stored.db, run |-> [run EXCEPT !.returned = stored.upserted]]
        ELSE IF up.second = "ok"
        THEN [db |-> stored.db, run |-> [again EXCEPT !.returned = stored.upserted]]
        ELSE [db |-> db0, run |-> [again EXCEPT !.raised = RuntimeError]]

(***************************************************************************)
(* api/timeseries.py: the query parameters of GET /api/window-stats        *)
(***************************************************************************)
AbsentParam == [kind |-> "absent", v |-> 0]
TextParam == [kind |-> "text", v |-> 0]
IntParam(n) == [kind |-> "int", v |-> n]

\* lines 16-20: the default when the parameter is absent or no integer
_parse_int(raw, default) == IF raw.kind = "int" THEN raw.v ELSE default

\* lines 22-26: raw is the list of the comma-separated items of the
\* parameter, <<>> for an absent or empty parameter
RECURSIVE UpperItems(_)
UpperItems(items) ==
    IF items = <<>> THEN <<>>
    ELSE (IF Head(items) = "" THEN <<>> ELSE <<upper(Head(items))>>)
         \o UpperItems(Tail(items))

_parse_csv(raw, default) == IF raw = <<>> THEN default ELSE UpperItems(raw)

DefaultDays == 14

\* lines 101-118: the arguments window_stats passes to compute_window_stats
\* (controls or None, and line 55 turns None into [])
ArgsOf(r) ==
    [country   |-> upper(r.country),
     metric    |-> r.metric,
     event     |-> r.event,
     pre_days  |-> _parse_int(r.pre, DefaultDays),
     post_days |-> _parse_int(r.post, DefaultDays),
     controls  |-> _parse_csv(r.controls, <<>>)]

(***************************************************************************)
(* The fetches of one compute_window_stats call, in the order of the code  *)
(***************************************************************************)
\* lines 63-64: the subject, pre then post
SubjectPlan(a) ==
    <<[country |-> a.country, win |-> "pre", role |-> "subject"],
      [country |-> a.country, win |-> "post", role |-> "subject"]>>

\* lines 77-78: every control over the pre-window, then over the post-window
ControlPlan(a) ==
    [i \in 1..Len(a.controls) |->
        [country |-> a.controls[i], win |-> "pre", role |-> "control"]]
    \o
    [i \in 1..Len(a.controls) |->
        [country |-> a.controls[i], win |-> "post", role |-> "control"]]

\* the counts of controls_detail taken from the subject's series
DetailPlan_of_subject(a) ==
    [j \in 1..(2 * Len(a.controls)) |->
        [country |-> a.country,
         win |-> IF j % 2 = 1 THEN "pre" ELSE "post",
         role |-> "detail"]]

\* lines 103-107: control by control, pre then post, fetched again
DetailPlan(a) ==
    [j \in 1..(2 * Len(a.controls)) |->
        [country |-> a.controls[(j + 1) \div 2],
         win |-> IF j % 2 = 1 THEN "pre" ELSE "post",
         role |-> "detail"]]

FetchPlan(a) == SubjectPlan(a) \o ControlPlan(a) \o DetailPlan(a)

Since(w, win) == IF win = "pre" THEN w.pre_since ELSE w.post_since
Until(w, win) == IF win = "pre" THEN w.pre_until ELSE w.post_until

\* lines 66-121: the report, from the results of the fetches in plan order
ReportOf(a, series) ==
    LET n == Len(a.controls)
        s_pre == series[1]
        s_post == series[2]
        mean_pre == _mean(Values(s_pre))
        mean_post == _mean(Values(s_post))
        pre_series_list == <<s_pre>> \o [i \in 1..n |-> series[2 + i]]
        post_series_list == <<s_post>> \o [i \in 1..n |-> series[2 + n + i]]
        ctrlset == {a.controls[i] : i \in 1..n}
        last(c) == CHOOSE i \in 1..n : a.controls[i] = c /\ \A j \in 1..n : a.controls[j] = c => j <= i
    IN  [country   |-> a.country,
         metric    |-> a.metric,
         event     |-> a.event,
         pre_days  |-> a.pre_days,
         post_days |-> a.post_days,
         mean_pre  |-> mean_pre,
         mean_post |-> mean_post,
         pct_delta |-> pct_delta_of(mean_pre, mean_post),
         z_score_vs_controls |->
             IF n = 0 THEN None
             ELSE z_score_of(_period_stats(pre_series_list), _period_stats(post_series_list)),
         controls  |-> a.controls,
         controls_detail |->
             [c \in ctrlset |->
                 [pre_points  |-> Len(series[2 + 2 * n + 2 * last(c) - 1]),
                  post_points |-> Len(series[2 + 2 * n + 2 * last(c)])]]]

\* the call raising on an empty subject pre-window instead of reporting None
compute_result_strict(a, series) ==
    IF series[1] = <<>>
    THEN [status |-> 500, exc |-> ValueError, report |-> <<>>]
    ELSE [status |-> 200, exc |-> None, report |-> <<ReportOf(a, series)>>]

\* the call scoring 0 against controls it was not given
compute_result_zero_score(a, series) ==
    LET r == ReportOf(a, series)
    IN  [status |-> 200, exc |-> None,
         report |-> <<[r EXCEPT !.z_score_vs_controls =
                          IF a.controls = <<>> THEN <<RInt(0), RInt(1)>> ELSE @]>>]

\* lines 66-121 never raise: the call returns its report, and window_stats
\* answers 200 with it (api/timeseries.py lines 119-120)
compute_result(a, series) ==
    [status |-> 200, exc |-> None, report |-> <<ReportOf(a, series)>>]

\* An exception that leaves the handler: no report, Flask answers 500
Raised(exc) == [status |-> 500, exc |-> exc, report |-> <<>>]

\* api/timeseries.py line 105
MissingEvent == [status |-> 400, exc |-> None, report |-> <<>>]

NoResponse == [status |-> 0, exc |-> None, report |-> <<>>]

SourceUnavailable == <<"SourceUnavailable">>

(***************************************************************************)
(* Inputs                                                                  *)
(***************************************************************************)
\* stored timestamps: "2025-07-11T00:00:00", "2025-07-24T23:00:00Z",
\* "2025-07-25T00:00:00"
TsA == <<2025, 7, 11, 0, 0, 0, 0>>
TsP == <<2025, 7, 24, 23, 0, 0, 1>>
TsE == <<2025, 7, 25, 0, 0, 0, 0>>
Timestamps == {TsA, TsP, TsE}

PointValues == {0, 2}

\* the most documents the collections hold together
MaxDocs == 2

Points(tss, vals) == {<<[ts |-> t, value |-> v]>> : t \in tss, v \in vals}

\* The ingest runs: fetch_http_requests(country) (lines 142-172) writes
\* traffic_ts / http_requests_norm, fetch_l3_attacks(country, "target")
\* (lines 270-299) writes l3_ts / l3_bytes_target; data is the upstream
\* response as _parse_timeseries_data returns it.
IngestRuns ==
    [coll : {"traffic_ts"}, metric : {"http_requests_norm"}, country : {"gb"},
     data : Points(Timestamps, PointValues)
            \cup {<<[ts |-> TsP, value |-> 0], [ts |-> TsP, value |-> 2]>>}]
    \cup
    [coll : {"traffic_ts"}, metric : {"http_requests_norm"}, country : {"IE"},
     data : Points({TsP, TsE}, PointValues)]
    \cup
    [coll : {"l3_ts"}, metric : {"l3_bytes_target"}, country : {"gb"},
     data : Points({TsE}, {2})]

\* GET /api/window-stats: the query strings
EventParams == {None, <<2025, 7, 25>>, <<2025, 2, 30>>, <<1, 1, 5>>}
PreParams == {AbsentParam, IntParam(0), IntParam(1)}
PostParams == {TextParam, IntParam(-1)}
ControlParams == {<<>>, <<"ie">>, <<"gb">>}
Requests ==
    [country : {"gb"}, metric : {"http_requests_norm", "l3_bytes_target"},
     event : EventParams, pre : PreParams, post : PostParams,
     controls : ControlParams]

(***************************************************************************)
(* State                                                                   *)
(***************************************************************************)
VARIABLES
    db,        \* the documents of the time-series collections
    pc,        \* the request in hand: "idle", "fetching" or "responded"
    req,       \* its query parameters
    call,      \* compute_window_stats' arguments and window bounds
    fetches,   \* the _find_series calls it has issued, in order, with results
    resp,      \* the response
    diffs,     \* a pre-window and a post-window diff series, as floats
    stat,      \* the z-score computed from them
    threads,   \* the worker threads, each with the request it serves
    _CLIENT,   \* db/mongo.py: the module's MongoClient, None until first use
    domain_rank,   \* the documents of the domain_rank collection
    top,       \* the last top_domains_for_day call and what it returned
    ingested,  \* the last ingest run: its upstream exchange and what it returned
    environ,   \* the process environment (os.environ) the app was started with
    served,    \* the last answer of GET /api/health
    batch,     \* the last upstream result parsed and stored, with what came of it
    gated      \* the last top_domains_with_age_gate call and what it returned

stats_vars == <<diffs, stat>>
thread_vars == <<threads, _CLIENT>>
domain_vars == <<domain_rank, top>>
ingest_vars == <<ingested>>
health_vars == <<environ, served>>
batch_vars == <<batch>>
gate_vars == <<gated>>

\* the variables the request handler does not touch
aux == <<diffs, stat, threads, _CLIENT, domain_rank, top, ingested, environ, served,
         batch, gated>>

\* the request handler's own variables
handler == <<pc, req, call, fetches, resp>>

vars == <<db, pc, req, call, fetches, resp, diffs, stat, threads, _CLIENT,
          domain_rank, top, ingested, environ, served, batch, gated>>

NoRequest ==
    [country |-> "", metric |-> "", event |-> None, pre |-> AbsentParam,
     post |-> AbsentParam, controls |-> <<>>]

NoCall == [args |-> ArgsOf(NoRequest), w |-> NoWindows(None)]

NoDiffs == [pre |-> <<>>, post |-> <<>>]
NoStat == [done |-> FALSE, z |-> None]

Threads == {1, 2}

ThreadIdle ==
    [pc |-> "idle", req |-> NoRequest, call |-> NoCall, fetches |-> <<>>,
     resp |-> NoResponse, client |-> None]

StatsIdle ==
    /\ diffs = NoDiffs
    /\ stat = NoStat

ThreadsIdle ==
    /\ threads = [t \in Threads |-> ThreadIdle]
    /\ _CLIENT = None

NoTop == [called |-> FALSE, country |-> "", date |-> None, limit |-> 0,
          category |-> None, day |-> None, rows |-> <<>>]

DomainsIdle ==
    /\ domain_rank = {}
    /\ top = NoTop

IngestIdle == ingested = NoIngest

Unset == [set |-> FALSE, v |-> ""]
Setenv(v) == [set |-> TRUE, v |-> v]

\* conftest.py's environment: no database, FLASK_ENV=testing
TestEnviron ==
    [FLASK_ENV |-> Setenv("testing"), CORS_ORIGINS |-> Unset,
     MONGODB_URI |-> Setenv(""), CLOUDFLARE_API_TOKEN |-> Unset]

NoServed == [code |-> 0, body |-> [x \in {} |-> x]]

HealthIdle ==
    /\ environ = TestEnviron
    /\ served = NoServed

NoBatch ==
    [done |-> FALSE, result |-> NoResult, unwritable |-> {}, before |-> {},
     parsed |-> <<>>, returned |-> 0]

BatchIdle == batch = NoBatch

NoGated ==
    [called |-> FALSE, country |-> "", date |-> None, limit |-> 0,
     items |-> <<>>, counts |-> [yes |-> 0, unknown |-> 0, no |-> 0]]

GateIdle == gated = NoGated

AuxIdle ==
    /\ StatsIdle /\ ThreadsIdle /\ DomainsIdle /\ IngestIdle /\ HealthIdle
    /\ BatchIdle /\ GateIdle

Init ==
    /\ db = {}
    /\ pc = "idle"
    /\ req = NoRequest
    /\ call = NoCall
    /\ fetches = <<>>
    /\ resp = NoResponse
    /\ AuxIdle

\* An ingest run stores the points of an upstream response.
Ingest(run) ==
    LET res == _store_timeseries_data(db, run.coll, run.country, run.metric, run.data)
    IN  /\ Cardinality(res.db) <= MaxDocs
        /\ db' = res.db
        /\ UNCHANGED <<pc, req, call, fetches, resp>>
        /\ UNCHANGED aux

\* the handler substituting a default event date for a missing one
handle_request_default_event(r) ==
    LET a == [ArgsOf(r) EXCEPT !.event = IF r.event = None THEN <<2025, 7, 25>> ELSE r.event]
        w == windows_of(a.event, a.pre_days, a.post_days)
    IN  IF w.exc # None
        THEN [pc |-> "responded", resp |-> Raised(w.exc),
              call |-> [args |-> a, w |-> w]]
        ELSE [pc |-> "fetching", resp |-> NoResponse,
              call |-> [args |-> a, w |-> w]]

\* window_stats up to the first fetch: lines 101-109 of api/timeseries.py and
\* lines 55-61 of analytics/windows.py.  A missing event is answered 400 at
\* once; an exception of the datetime arithmetic leaves the handler.
handle_request(r) ==
    IF r.event = None
    THEN [pc |-> "responded", resp |-> MissingEvent, call |-> NoCall]
    ELSE LET a == ArgsOf(r)
             w == windows_of(a.event, a.pre_days, a.post_days)
         IN  IF w.exc # None
             THEN [pc |-> "responded", resp |-> Raised(w.exc),
                   call |-> [args |-> a, w |-> w]]
             ELSE [pc |-> "fetching", resp |-> NoResponse,
                   call |-> [args |-> a, w |-> w]]

window_stats(r) ==
    /\ pc = "idle"
    /\ req' = r
    /\ fetches' = <<>>
    /\ LET out == handle_request(r)
       IN  /\ pc' = out.pc
           /\ resp' = out.resp
           /\ call' = out.call
    /\ UNCHANGED db
    /\ UNCHANGED aux

\* The next fetch of the plan, as the call issues it
NextFetchOf(c, log) ==
    LET q == FetchPlan(c.args)[Len(log) + 1]
    IN  [country |-> q.country, metric |-> c.args.metric, role |-> q.role,
         win |-> q.win, since |-> Since(c.w, q.win), until |-> Until(c.w, q.win)]

NextFetch == NextFetchOf(call, fetches)

Fetched(q, ok, series) ==
    [country |-> q.country, metric |-> q.metric, role |-> q.role, win |-> q.win,
     since |-> q.since, until |-> q.until, ok |-> ok, series |-> series]

SeriesOf(log) == [i \in 1..Len(log) |-> log[i].series]

\* a fetch that takes the points it finds out of the collection
FetchOk_consuming ==
    /\ pc = "fetching"
    /\ LET q == NextFetch
           found == {p \in db : /\ p.coll = "traffic_ts"
                                /\ p.country = upper(q.country)
                                /\ p.metric = q.metric
                                /\ TsLe(q.since, p.ts)
                                /\ TsLe(p.ts, q.until)}
           log == Append(fetches, Fetched(q, TRUE, SortByTs(found)))
       IN  /\ fetches' = log
           /\ db' = db \ found
           /\ IF Len(log) = Len(FetchPlan(call.args))
              THEN /\ resp' = compute_result(call.args, SeriesOf(log))
                   /\ pc' = "responded"
              ELSE UNCHANGED <<resp, pc>>
    /\ UNCHANGED <<req, call>>
    /\ UNCHANGED aux

\* One _find_series call answers; after the last one the call returns.
FetchOk ==
    /\ pc = "fetching"
    /\ LET q == NextFetch
           log == Append(fetches,
                         Fetched(q, TRUE, _find_series_in(db, q.country, q.metric, q.since, q.until)))
       IN  /\ fetches' = log
           /\ IF Len(log) = Len(FetchPlan(call.args))
              THEN /\ resp' = compute_result(call.args, SeriesOf(log))
                   /\ pc' = "responded"
              ELSE UNCHANGED <<resp, pc>>
    /\ UNCHANGED <<db, req, call>>
    /\ UNCHANGED aux

\* a failed fetch taken for an empty series, the call going on
on_fetch_error_swallow(log) ==
    IF Len(log) = Len(FetchPlan(call.args))
    THEN [pc |-> "responded", resp |-> compute_result(call.args, SeriesOf(log)),
          fetches |-> log]
    ELSE [pc |-> "fetching", resp |-> NoResponse, fetches |-> log]

\* One _find_series call raises (the store or the network failed): nothing
\* catches it in compute_window_stats or in window_stats.
on_fetch_error(log) ==
    [pc |-> "responded", resp |-> Raised(SourceUnavailable), fetches |-> log]

FetchFail ==
    /\ pc = "fetching"
    /\ LET out == on_fetch_error(Append(fetches, Fetched(NextFetch, FALSE, <<>>)))
       IN  /\ pc' = out.pc
           /\ resp' = out.resp
           /\ fetches' = out.fetches
    /\ UNCHANGED <<db, req, call>>
    /\ UNCHANGED aux

\* The response has gone out; the worker takes the next request.
Deliver ==
    /\ pc = "responded"
    /\ pc' = "idle"
    /\ req' = NoRequest
    /\ call' = NoCall
    /\ fetches' = <<>>
    /\ resp' = NoResponse
    /\ UNCHANGED db
    /\ UNCHANGED aux

Next ==
    \/ \E run \in IngestRuns : Ingest(run)
    \/ \E r \in Requests : window_stats(r)
    \/ FetchOk
    \/ FetchFail
    \/ Deliver

Spec == Init /\ [][Next]_vars

(***************************************************************************)
(* The call against a fixed store: the subject GB with the controls IE and *)
(* NL, event 2025-07-25, 14 days before and after                          *)
(***************************************************************************)
Doc(country, ts, value) ==
    [coll |-> "traffic_ts", country |-> country, metric |-> "http_requests_norm",
     ts |-> ts, value |-> value]

\* "2025-07-24T23:00:00": the instant of TsP, written without the Z
TsQ == <<2025, 7, 24, 23, 0, 0, 0>>

ControlDocs ==
    {Doc("GB", TsA, 10), Doc("GB", TsP, 10), Doc("GB", TsP, 20), Doc("GB", TsE, 110),
     Doc("IE", TsA, 0), Doc("IE", TsP, 0), Doc("IE", TsP, 10), Doc("IE", TsE, 0),
     Doc("NL", TsP, 20), Doc("NL", TsE, 0), Doc("NL", TsQ, 30)}

\* update_one(..., upsert=True) keeps one document per (country, metric, ts)
SameKey(d, e) ==
    d.coll = e.coll /\ d.country = e.country /\ d.metric = e.metric /\ d.ts = e.ts

Stores == {S \in SUBSET ControlDocs : \A d, e \in S : SameKey(d, e) => d = e}

ControlRequests ==
    [country : {"gb"}, metric : {"http_requests_norm"}, event : {<<2025, 7, 25>>},
     pre : {AbsentParam}, post : {TextParam},
     controls : {<<>>, <<"ie">>, <<"ie", "nl">>}]

InitControls ==
    /\ db \in Stores
    /\ pc = "idle"
    /\ req = NoRequest
    /\ call = NoCall
    /\ fetches = <<>>
    /\ resp = NoResponse
    /\ AuxIdle

NextControls ==
    \/ \E r \in ControlRequests : window_stats(r)
    \/ FetchOk
    \/ FetchFail
    \/ Deliver

SpecControls == InitControls /\ [][NextControls]_vars

(***************************************************************************)
(* The z-score of a pre-window and a post-window diff series, in floating  *)
(* point                                                                   *)
(***************************************************************************)
MaxRows == 3

FloatDiffs == {RInt(10), RInt(20), RInt(86), RInt(110)}

DiffSeries(n) == UNION {[1..k -> FloatDiffs] : k \in 0..n}

InitFloat ==
    /\ db = {}
    /\ pc = "idle"
    /\ req = NoRequest
    /\ call = NoCall
    /\ fetches = <<>>
    /\ resp = NoResponse
    /\ diffs \in [pre : DiffSeries(MaxRows), post : DiffSeries(1)]
    /\ stat = NoStat
    /\ ThreadsIdle
    /\ DomainsIdle
    /\ IngestIdle
    /\ HealthIdle
    /\ BatchIdle
    /\ GateIdle

\* lines 94-101 of analytics/windows.py
Score ==
    /\ ~stat.done
    /\ stat' = [done |-> TRUE,
                z |-> z_score_of(stats_of_diffs(diffs.pre), stats_of_diffs(diffs.post))]
    /\ UNCHANGED <<db, handler, diffs, thread_vars, domain_vars, ingest_vars, health_vars, batch_vars, gate_vars>>

NextFloat == Score

SpecFloat == InitFloat /\ [][NextFloat]_vars

(***************************************************************************)
(* Two worker threads serving window-stats requests against a fixed store. *)
(* Every _find_series call goes through get_collection, get_db and         *)
(* get_client (db/mongo.py), which makes the module's client on first use. *)
(***************************************************************************)
WorkerDocs == {Doc("GB", TsA, 10), Doc("GB", TsP, 20), Doc("IE", TsP, 0)}

WorkerRequests ==
    [country : {"gb"}, metric : {"http_requests_norm"}, event : {<<2025, 7, 25>>},
     pre : {AbsentParam, IntParam(1)}, post : {TextParam},
     controls : {<<>>, <<"ie">>}]

InitWorkers ==
    /\ db \in SUBSET WorkerDocs
    /\ pc = "idle"
    /\ req = NoRequest
    /\ call = NoCall
    /\ fetches = <<>>
    /\ resp = NoResponse
    /\ StatsIdle
    /\ ThreadsIdle
    /\ DomainsIdle
    /\ IngestIdle
    /\ HealthIdle
    /\ BatchIdle
    /\ GateIdle

\* thread t takes a request: window_stats up to the first fetch
thread_window_stats(t, r) ==
    /\ threads[t].pc = "idle"
    /\ LET out == handle_request(r)
       IN  threads' = [threads EXCEPT ![t] =
                          [pc |-> out.pc, req |-> r, call |-> out.call,
                           fetches |-> <<>>, resp |-> out.resp, client |-> None]]
    /\ UNCHANGED <<db, handler, stats_vars, domain_vars, ingest_vars, health_vars, batch_vars, gate_vars, _CLIENT>>

\* get_client, lines 34-37: the module's client if there is one
get_client(t) ==
    /\ threads[t].pc = "fetching"
    /\ threads[t].client = None
    /\ threads' = [threads EXCEPT ![t] =
                      IF _CLIENT # None THEN [@ EXCEPT !.client = _CLIENT]
                      ELSE [@ EXCEPT !.pc = "connecting"]]
    /\ UNCHANGED <<db, handler, stats_vars, domain_vars, ingest_vars, health_vars, batch_vars, gate_vars, _CLIENT>>

\* get_client, lines 38-42: a new client, made by t, becomes the module's
new_client(t) ==
    /\ threads[t].pc = "connecting"
    /\ _CLIENT' = <<t>>
    /\ threads' = [threads EXCEPT ![t].pc = "returning"]
    /\ UNCHANGED <<db, handler, stats_vars, domain_vars, ingest_vars, health_vars, batch_vars, gate_vars>>

\* get_client, line 43: return _CLIENT, as it is by then
return_client(t) ==
    /\ threads[t].pc = "returning"
    /\ threads' = [threads EXCEPT ![t] = [@ EXCEPT !.pc = "fetching", !.client = _CLIENT]]
    /\ UNCHANGED <<db, handler, stats_vars, domain_vars, ingest_vars, health_vars, batch_vars, gate_vars, _CLIENT>>

\* a query answering only through the client the thread made itself
find_via_own_client(t, client, q) ==
    IF client = <<t>>
    THEN _find_series_in(db, q.country, q.metric, q.since, q.until)
    ELSE <<>>

\* _find_series through a client: every client is a connection to the one
\* database of MONGODB_URI
find_via(t, client, q) ==
    _find_series_in(db, q.country, q.metric, q.since, q.until)

\* the series of the report taken from a list the threads share: position i
\* holds what the other thread fetched i-th, if it has
shared_series(t, log) ==
    LET other == threads[CHOOSE u \in Threads : u # t].fetches
    IN  [i \in 1..Len(log) |-> IF i <= Len(other) THEN other[i].series ELSE log[i].series]

\* the series of the report: the call's own local lists (s_pre, s_post,
\* pre_series_list, post_series_list and the counts)
own_series(t, log) == SeriesOf(log)

\* thread t's next _find_series call answers; after the last the call returns
thread_fetch(t) ==
    /\ threads[t].pc = "fetching"
    /\ threads[t].client # None
    /\ LET th == threads[t]
           q == NextFetchOf(th.call, th.fetches)
           log == Append(th.fetches, Fetched(q, TRUE, find_via(t, th.client, q)))
           done == Len(log) = Len(FetchPlan(th.call.args))
       IN  threads' = [threads EXCEPT ![t] =
                          [@ EXCEPT !.fetches = log,
                                    !.client = None,
                                    !.pc = IF done THEN "responded" ELSE "fetching",
                                    !.resp = IF done
                                             THEN compute_result(th.call.args, own_series(t, log))
                                             ELSE @]]
    /\ UNCHANGED <<db, handler, stats_vars, domain_vars, ingest_vars, health_vars, batch_vars, gate_vars, _CLIENT>>

\* the response has gone out; the thread takes the next request
thread_deliver(t) ==
    /\ threads[t].pc = "responded"
    /\ threads' = [threads EXCEPT ![t] = ThreadIdle]
    /\ UNCHANGED <<db, handler, stats_vars, domain_vars, ingest_vars, health_vars, batch_vars, gate_vars, _CLIENT>>

NextWorkers ==
    \E t \in Threads :
        \/ \E r \in WorkerRequests : thread_window_stats(t, r)
        \/ get_client(t)
        \/ new_client(t)
        \/ return_client(t)
        \/ thread_fetch(t)
        \/ thread_deliver(t)

SpecWorkers == InitWorkers /\ [][NextWorkers]_vars

(***************************************************************************)
(* analytics/joiners.py: the top domains of a day.  A domain_rank document *)
(* is [country, date, domain, rank, category]; a date is the string        *)
(* "YYYY-MM-DD", here the tuple <<year, month, day>> of its fixed-width     *)
(* fields, ordered as the string is; a category is <<name>> or None.       *)
(***************************************************************************)
Rank(country, date, domain, rank, category) ==
    [country |-> country, date |-> date, domain |-> domain, rank |-> rank,
     category |-> category]

DomainDocs ==
    {Rank("GB", <<2025, 7, 25>>, "a.com", 1, <<"Adult">>),
     Rank("GB", <<2025, 7, 25>>, "b.com", 2, <<"News">>),
     Rank("GB", <<2025, 10, 1>>, "b.com", 1, <<"News">>),
     Rank("GB", <<2025, 10, 1>>, "a.com", 2, None),
     Rank("IE", <<2025, 7, 25>>, "a.com", 1, <<"Adult">>),
     Rank("IE", <<2025, 11, 30>>, "a.com", 1, <<"Adult">>)}

TopRequests ==
    [country : {"gb", "ie"}, date : {None, <<2025, 7, 25>>}, limit : {1, 10},
     category : {None, <<"Adult">>}]

\* cursor.sort("rank", 1) of documents with distinct ranks
RECURSIVE SortByRank(_)
SortByRank(S) ==
    IF S = {} THEN <<>>
    ELSE LET first == CHOOSE d \in S : \A e \in S : d.rank <= e.rank
         IN  <<first>> \o SortByRank(S \ {first})

\* cursor.limit(n): the first n documents, all of them for n = 0
Limit(rows, n) ==
    IF n = 0 \/ Len(rows) <= n THEN rows ELSE SubSeq(rows, 1, n)

\* the latest date of any country's records
_latest_date_any_country(coll, country) ==
    IF coll = {} THEN None
    ELSE (CHOOSE d \in coll : \A e \in coll : TsLe(e.date, d.date)).date

\* lines 9-17: sort("date", -1).limit(1) over the country's documents
_latest_date_for_country(coll, country) ==
    LET rows == {d \in coll : d.country = upper(country)}
    IN  IF rows = {} THEN None
        ELSE (CHOOSE d \in rows : \A e \in rows : TsLe(e.date, d.date)).date

\* lines 20-42: (day, rows)
top_domains_for_day(coll, country, date, limit, category) ==
    LET ctry == upper(country)
        day == IF date # None THEN date ELSE _latest_date_for_country(coll, ctry)
    IN  IF day = None THEN [day |-> None, rows |-> <<>>]
        ELSE [day |-> day,
              rows |-> Limit(SortByRank({d \in coll :
                                            /\ d.country = ctry
                                            /\ d.date = day
                                            /\ (category # None => d.category = category)}),
                             limit)]

InitDomains ==
    /\ db = {}
    /\ pc = "idle"
    /\ req = NoRequest
    /\ call = NoCall
    /\ fetches = <<>>
    /\ resp = NoResponse
    /\ StatsIdle
    /\ ThreadsIdle
    /\ IngestIdle
    /\ domain_rank \in SUBSET DomainDocs
    /\ top = NoTop
    /\ HealthIdle
    /\ BatchIdle
    /\ GateIdle

\* one call of top_domains_for_day
TopDomains(r) ==
    /\ LET out == top_domains_for_day(domain_rank, r.country, r.date, r.limit, r.category)
       IN  top' = [called |-> TRUE, country |-> r.country, date |-> r.date,
                   limit |-> r.limit, category |-> r.category,
                   day |-> out.day, rows |-> out.rows]
    /\ UNCHANGED <<db, handler, stats_vars, thread_vars, ingest_vars, health_vars, batch_vars, gate_vars, domain_rank>>

NextDomains == \E r \in TopRequests : TopDomains(r)

SpecDomains == InitDomains /\ [][NextDomains]_vars

(***************************************************************************)
(* analytics/joiners.py top_domains_with_age_gate over                     *)
(* data/age_gate_curated.py: the day's top domains, each with its curated  *)
(* age-gate status, and the tally of the statuses                          *)
(***************************************************************************)
\* entries of CURATED (lines 12-40); a note is <<text>> or None
CURATED ==
    [d \in {"reddit.com", "x.com", "pornhub.com", "tiktok.com", "steamcommunity.com"} |->
        CASE d = "reddit.com" -> [status |-> "yes", note |-> <<"Reports of UK age checks after 2025-07-25">>]
          [] d = "x.com" -> [status |-> "yes", note |-> <<"X/Twitter age verification prompts reported in UK">>]
          [] d = "pornhub.com" -> [status |-> "yes", note |-> <<"Age verification enforced in UK">>]
          [] d = "tiktok.com" -> [status |-> "unknown", note |-> <<"Mixed reports; treat as unknown">>]
          [] OTHER -> [status |-> "unknown", note |-> None]]

\* str.lower() on the domains of the store
lower(domain) ==
    CASE domain = "X.COM" -> "x.com"
      [] domain = "WWW.Reddit.com" -> "www.reddit.com"
      [] OTHER -> domain

\* d.startswith("www.") and d[4:]
startswith_www(d) == d \in {"www.reddit.com", "www.example.org"}
after_www(d) ==
    CASE d = "www.reddit.com" -> "reddit.com"
      [] d = "www.example.org" -> "example.org"
      [] OTHER -> d

\* age_gate_curated.py lines 43-55
get_status(domain) ==
    LET d == lower(domain)
    IN  IF d \in DOMAIN CURATED THEN CURATED[d]
        ELSE IF startswith_www(d) /\ after_www(d) \in DOMAIN CURATED THEN CURATED[after_www(d)]
        ELSE [status |-> "unknown", note |-> None]

\* joiners.py lines 66-70: the status a row is annotated with
row_status(r) ==
    LET ag == get_status(r.domain)
        status == IF ag.status = "" THEN "unknown" ELSE ag.status
    IN  IF status \notin {"yes", "unknown", "no"} THEN "unknown" ELSE status

\* lines 65-72: the annotated rows and the tally, row by row
RECURSIVE Annotate(_, _)
Annotate(acc, rows) ==
    IF rows = <<>> THEN acc
    ELSE LET r == Head(rows)
             status == row_status(r)
         IN  Annotate([counts |-> [acc.counts EXCEPT ![status] = @ + 1],
                       out |-> Append(acc.out,
                                      [doc |-> r,
                                       age_gate |-> [status |-> status,
                                                     note |-> get_status(r.domain).note]])],
                      Tail(rows))

\* the tally taking in only the rows whose domain the table lists
RECURSIVE Annotate_listed_only(_, _)
Annotate_listed_only(acc, rows) ==
    IF rows = <<>> THEN acc
    ELSE LET r == Head(rows)
             status == row_status(r)
             listed == lower(r.domain) \in DOMAIN CURATED
         IN  Annotate_listed_only(
                 [counts |-> IF listed THEN [acc.counts EXCEPT ![status] = @ + 1]
                             ELSE acc.counts,
                  out |-> Append(acc.out,
                                 [doc |-> r,
                                  age_gate |-> [status |-> status,
                                                note |-> get_status(r.domain).note]])],
                 Tail(rows))

top_domains_with_age_gate_listed_only(coll, country, date, limit, category) ==
    LET found == top_domains_for_day(coll, country, date, limit, category)
        done == Annotate_listed_only([counts |-> [yes |-> 0, unknown |-> 0, no |-> 0],
                                      out |-> <<>>], found.rows)
    IN  [country |-> upper(country), date |-> found.day, results |-> done.out,
         counts |-> done.counts]

\* lines 45-79
top_domains_with_age_gate(coll, country, date, limit, category) ==
    LET found == top_domains_for_day(coll, country, date, limit, category)
        done == Annotate([counts |-> [yes |-> 0, unknown |-> 0, no |-> 0], out |-> <<>>],
                         found.rows)
    IN  [country |-> upper(country), date |-> found.day, results |-> done.out,
         counts |-> done.counts]

GateDocs ==
    {Rank("GB", <<2025, 7, 25>>, "reddit.com", 1, <<"Social">>),
     Rank("GB", <<2025, 7, 25>>, "example.org", 2, None),
     Rank("GB", <<2025, 7, 25>>, "X.COM", 3, <<"Social">>),
     Rank("GB", <<2025, 7, 25>>, "tiktok.com", 4, <<"Social">>),
     Rank("GB", <<2025, 7, 25>>, "WWW.Reddit.com", 5, <<"Social">>),
     Rank("GB", <<2025, 7, 25>>, "www.example.org", 6, None),
     Rank("GB", <<2025, 10, 1>>, "steamcommunity.com", 1, None)}

GateRequests ==
    [country : {"gb"}, date : {None, <<2025, 7, 25>>}, limit : {2, 10},
     category : {None, <<"Social">>}]

InitGate ==
    /\ db = {}
    /\ pc = "idle"
    /\ req = NoRequest
    /\ call = NoCall
    /\ fetches = <<>>
    /\ resp = NoResponse
    /\ StatsIdle
    /\ ThreadsIdle
    /\ IngestIdle
    /\ HealthIdle
    /\ BatchIdle
    /\ domain_rank \in SUBSET GateDocs
    /\ top = NoTop
    /\ gated = NoGated

\* one call of top_domains_with_age_gate
AgeGate(r) ==
    /\ LET out == top_domains_with_age_gate(domain_rank, r.country, r.date, r.limit,
                                            r.category)
       IN  gated' = [called |-> TRUE, country |-> out.country, date |-> out.date,
                     limit |-> r.limit, items |-> out.results, counts |-> out.counts]
    /\ UNCHANGED <<db, handler, stats_vars, thread_vars, domain_vars, ingest_vars,
                   health_vars, batch_vars>>

NextGate == \E r \in GateRequests : AgeGate(r)

SpecGate == InitGate /\ [][NextGate]_vars

(***************************************************************************)
(* Ingest runs into an empty store, one after the other                    *)
(***************************************************************************)
MaxRuns == 2

\* "2025-08-10T00:00:00Z" and "2025-08-11T00:00:00Z"
TsU == <<2025, 8, 10, 0, 0, 0, 1>>
TsV == <<2025, 8, 11, 0, 0, 0, 1>>

UpstreamResults ==
    {Columns("main", <<TsU, TsV>>, <<RawNum(1), RawNum(2)>>),
     Columns("main", <<TsU, TsV>>, <<RawNum(2), RawNum(2)>>),
     Columns("main", <<TsU, TsU>>, <<RawNum(1), RawNum(2)>>),
     Columns("main", <<TsU, TsV>>, <<RawText, RawNum(2)>>),
     Columns("root", <<TsU, TsV>>, <<RawNum(1)>>),
     Rows("series", <<Row(TsU, RawNum(1)), Row(TsV, RawNum(2))>>),
     Rows("timeseries", <<Row(None, RawNum(1)), Row(TsV, RawNull)>>),
     Rows("series", <<Row(TsV, RawNum(1))>>),
     NoResult}

Upstreams ==
    [first : {"ok"}, second : {"ok"}, result : UpstreamResults]
    \cup [first : {"fail"}, second : {"ok", "fail"}, result : UpstreamResults]

InitIngest ==
    /\ db = {}
    /\ pc = "idle"
    /\ req = NoRequest
    /\ call = NoCall
    /\ fetches = <<>>
    /\ resp = NoResponse
    /\ StatsIdle
    /\ ThreadsIdle
    /\ DomainsIdle
    /\ IngestIdle
    /\ HealthIdle
    /\ BatchIdle
    /\ GateIdle

IngestStep(fn, country, direction, up) ==
    /\ ingested.runs < MaxRuns
    /\ LET out == ingest_run(db, fn, country, direction, up)
       IN  /\ db' = out.db
           /\ ingested' = [out.run EXCEPT !.runs = ingested.runs + 1]
    /\ UNCHANGED <<handler, stats_vars, thread_vars, domain_vars, health_vars, batch_vars, gate_vars>>

fetch_http_requests(country, up) == IngestStep("fetch_http_requests", country, "", up)

fetch_l3(country, direction, up) == IngestStep("fetch_l3", country, direction, up)

fetch_bot_traffic(country, up) == IngestStep("fetch_bot_traffic", country, "", up)

NextIngest ==
    \/ \E up \in Upstreams : fetch_http_requests("gb", up)
    \/ \E up \in Upstreams, direction \in {"target", "ORIGIN"} : fetch_l3("gb", direction, up)
    \/ \E up \in Upstreams : fetch_bot_traffic("gb", up)

SpecIngest == InitIngest /\ [][NextIngest]_vars

(***************************************************************************)
(* One upstream result parsed and stored (fetch_http_requests, lines       *)
(* 170-172), malformed points and failing writes included                  *)
(***************************************************************************)
BatchResults ==
    {Columns("main", <<TsU, TsV>>, <<RawNum(1), RawNum(2)>>),
     Columns("main", <<None, TsV>>, <<RawNum(1), RawNum(2)>>),
     Columns("main", <<TsU, TsV>>, <<RawNull, RawNum(2)>>),
     Columns("root", <<TsU, TsV>>, <<RawText, RawNum(2)>>),
     Columns("root", <<TsU, TsV>>, <<RawNum(2)>>),
     Rows("series", <<Row(TsU, RawNum(1)), Row(TsV, RawNum(2))>>),
     Rows("series", <<Row(None, RawNum(1)), Row(TsV, RawNum(2))>>),
     Rows("series", <<Row(TsU, RawText), Row(TsV, RawNum(2))>>),
     Rows("timeseries", <<RequestsRow(TsU, RawNum(0)), RequestsRow(TsV, RawNum(2))>>),
     Rows("timeseries", <<RequestsRow(TsU, RawNum(1)), Row(TsV, RawNull)>>)}

HttpDoc(ts, value) ==
    [coll |-> "traffic_ts", country |-> "GB", metric |-> "http_requests_norm",
     ts |-> ts, value |-> value]

InitBatch ==
    /\ db \in {{}, {HttpDoc(TsU, 1)}, {HttpDoc(TsV, 5)}}
    /\ pc = "idle"
    /\ req = NoRequest
    /\ call = NoCall
    /\ fetches = <<>>
    /\ resp = NoResponse
    /\ StatsIdle
    /\ ThreadsIdle
    /\ DomainsIdle
    /\ IngestIdle
    /\ HealthIdle
    /\ BatchIdle
    /\ GateIdle

\* lines 170-172: data = _parse_timeseries_data(result), then
\* _store_timeseries_data("traffic_ts", country, "http_requests_norm", data)
store_batch(country, result, unwritable) ==
    LET target == TargetOf("fetch_http_requests", "")
        data == _parse_timeseries_data(result)
        out == StoreThrough([db |-> db, upserted |-> 0], target.coll, upper(country),
                            target.metric, data, unwritable)
    IN  /\ db' = out.db
        /\ batch' = [done |-> TRUE, result |-> result, unwritable |-> unwritable,
                     before |-> db, parsed |-> data, returned |-> out.upserted]
        /\ UNCHANGED <<handler, stats_vars, thread_vars, domain_vars, ingest_vars,
                       health_vars, gate_vars>>

NextBatch ==
    \E result \in BatchResults, unwritable \in SUBSET {TsU, TsV} :
        store_batch("gb", result, unwritable)

SpecBatch == InitBatch /\ [][NextBatch]_vars

(***************************************************************************)
(* GET /api/health (api/health.py).  The app is started under some         *)
(* environment; each request pings the database and answers with a JSON    *)
(* object.                                                                 *)
(***************************************************************************)
getenv(e, name, default) == IF e[name].set THEN e[name].v ELSE default

\* db/mongo.py: _mongo_uri raises RuntimeError when MONGODB_URI is unset or empty
_mongo_uri(e) ==
    IF getenv(e, "MONGODB_URI", "") = ""
    THEN [raised |-> RuntimeError, uri |-> ""]
    ELSE [raised |-> None, uri |-> e.MONGODB_URI.v]

MongoClient(uri) == <<uri>>

\* db/mongo.py: get_client; the client is created lazily and kept in _CLIENT
get_client_of(e, cached) ==
    IF cached # None THEN [raised |-> None, client |-> cached]
    ELSE IF _mongo_uri(e).raised # None
         THEN [raised |-> RuntimeError, client |-> None]
         ELSE [raised |-> None, client |-> MongoClient(_mongo_uri(e).uri)]

\* db/mongo.py: ping; every exception (no URI, server not answering) is
\* logged and answered with False
ping(e, cached, up) ==
    IF get_client_of(e, cached).raised # None THEN FALSE ELSE up

Clock == {"2025-08-12T09:00:00+00:00", "2025-08-12T09:00:01+00:00"}

\* api/health.py: the body handed to jsonify
health_body(e, db_ok, now) ==
    [ok |-> TRUE,
     time_utc |-> now,
     env |-> [flask_env |-> getenv(e, "FLASK_ENV", "production"),
              cors_origins |-> getenv(e, "CORS_ORIGINS", "*")],
     config |-> [cf_token_set |-> getenv(e, "CLOUDFLARE_API_TOKEN", "") # ""],
     db |-> [ping |-> db_ok]]

\* flask: jsonify answers 200 with the object
jsonify(body) == [code |-> 200, body |-> body]

FlaskEnvs == {Unset, Setenv("testing"), Setenv("development"), Setenv("production")}

Environs ==
    [FLASK_ENV : FlaskEnvs,
     CORS_ORIGINS : {Unset, Setenv("https://example.org")},
     MONGODB_URI : {Unset, Setenv(""), Setenv("mongodb://localhost")},
     CLOUDFLARE_API_TOKEN : {Unset, Setenv("token")}]

InitHealth ==
    /\ db = {}
    /\ pc = "idle"
    /\ req = NoRequest
    /\ call = NoCall
    /\ fetches = <<>>
    /\ resp = NoResponse
    /\ StatsIdle
    /\ ThreadsIdle
    /\ DomainsIdle
    /\ IngestIdle
    /\ environ \in Environs
    /\ served = NoServed
    /\ BatchIdle
    /\ GateIdle

\* one GET /api/health at time now, the database server being up or not
health(now, up) ==
    LET got == get_client_of(environ, _CLIENT)
    IN  /\ served' = jsonify(health_body(environ, ping(environ, _CLIENT, up), now))
        /\ _CLIENT' = IF got.raised # None THEN _CLIENT ELSE got.client
        /\ UNCHANGED <<db, handler, stats_vars, domain_vars, ingest_vars, threads, environ,
                       batch_vars, gate_vars>>

NextHealth == \E now \in Clock, up \in BOOLEAN : health(now, up)

SpecHealth == InitHealth /\ [][NextHealth]_vars

(***************************************************************************)
(* Properties                                                              *)
(***************************************************************************)
HasReport == pc = "responded" /\ resp.report # <<>>
Report == resp.report[1]
AllOk == \A i \in 1..Len(fetches) : fetches[i].ok
PlanDone == Len(fetches) = Len(FetchPlan(call.args))

RECURSIVE IntSum(_)
IntSum(series) == IF series = <<>> THEN 0 ELSE Head(series).value + IntSum(Tail(series))

\* C1: pct_delta is (mean_post - mean_pre) / mean_pre exactly when mean_pre is
\* neither None nor zero and mean_post is not None; otherwise it is None, and
\* the call whose fetches all answered returns its report (nothing is raised).
C1_PctDelta ==
    /\ HasReport =>
          LET mp == Report.mean_pre
              mo == Report.mean_post
              pd == Report.pct_delta
          IN  IF mp # None /\ mp[1] # 0 /\ mo # None
              THEN pd # None /\ RMul(pd, mp) = RSub(mo, mp)
              ELSE pd = None
    /\ (pc = "responded" /\ fetches # <<>> /\ AllOk) => (PlanDone /\ resp.status = 200 /\ resp.report # <<>>)

\* a report with a zero pre-window mean, a post-window mean and no pct_delta
C1_Witness ==
    /\ HasReport
    /\ Report.mean_pre = RInt(0)
    /\ Report.mean_post # None
    /\ Report.pct_delta = None

\* C2: mean_pre (mean_post) is None exactly when the subject's pre-window
\* (post-window) series is empty, and otherwise the arithmetic mean of its
\* values; an empty pre-window gives pct_delta = None whatever the post-window.
C2_Means ==
    HasReport =>
        LET s_pre == fetches[1].series
            s_post == fetches[2].series
        IN  /\ (Report.mean_pre = None) <=> (s_pre = <<>>)
            /\ (Report.mean_post = None) <=> (s_post = <<>>)
            /\ s_pre # <<>> => Report.mean_pre = Rat(IntSum(s_pre), Len(s_pre))
            /\ s_post # <<>> => Report.mean_post = Rat(IntSum(s_post), Len(s_post))
            /\ s_pre = <<>> => Report.pct_delta = None

\* a report over an empty pre-window and a non-empty post-window
C2_Witness ==
    /\ HasReport
    /\ fetches[1].series = <<>>
    /\ fetches[2].series # <<>>
    /\ Report.mean_pre = None
    /\ Report.pct_delta = None

DateOf(ts) == <<ts[1], ts[2], ts[3]>>
ClockOf(ts) == <<ts[4], ts[5], ts[6], ts[7]>>
IsDate(d) == d[2] \in 1..12 /\ d[3] \in 1..DaysInMonth(d[1], d[2])
OrdOf(ts) == ToOrdinal(ts[1], ts[2], ts[3])

\* C3: with positive pre_days and post_days every query of the call is over
\* [E - pre_days days, E - 1 second] (pre-window) or [E, E + post_days days]
\* (post-window), E the event's midnight with no offset; the subject is queried
\* pre-window first; event 2025-07-25 with 14 and 14 days gives
\* 2025-07-11T00:00:00 .. 2025-07-24T23:59:59 and 2025-07-25T00:00:00 ..
\* 2025-08-08T00:00:00.
C3_Windows ==
    LET a == call.args
        E == ToOrdinal(a.event[1], a.event[2], a.event[3])
    IN  (fetches # <<>> /\ a.pre_days > 0 /\ a.post_days > 0) =>
        /\ \A i \in 1..Len(fetches) :
              LET f == fetches[i]
              IN  /\ IsDate(DateOf(f.since)) /\ IsDate(DateOf(f.until))
                  /\ IF f.win = "pre"
                     THEN /\ OrdOf(f.since) = E - a.pre_days
                          /\ ClockOf(f.since) = <<0, 0, 0, 0>>
                          /\ OrdOf(f.until) = E - 1
                          /\ ClockOf(f.until) = <<23, 59, 59, 0>>
                     ELSE /\ DateOf(f.since) = a.event
                          /\ ClockOf(f.since) = <<0, 0, 0, 0>>
                          /\ OrdOf(f.until) = E + a.post_days
                          /\ ClockOf(f.until) = <<0, 0, 0, 0>>
        /\ fetches[1].win = "pre" /\ fetches[1].role = "subject"
        /\ Len(fetches) >= 2 => fetches[2].win = "post" /\ fetches[2].role = "subject"
        /\ (a.event = <<2025, 7, 25>> /\ a.pre_days = 14 /\ a.post_days = 14) =>
              /\ fetches[1].since = <<2025, 7, 11, 0, 0, 0, 0>>
              /\ fetches[1].until = <<2025, 7, 24, 23, 59, 59, 0>>
              /\ Len(fetches) >= 2 =>
                    /\ fetches[2].since = <<2025, 7, 25, 0, 0, 0, 0>>
                    /\ fetches[2].until = <<2025, 8, 8, 0, 0, 0, 0>>

\* both subject queries issued for event 2025-07-25, 14 days before and after
C3_Witness ==
    /\ call.args.event = <<2025, 7, 25>>
    /\ call.args.pre_days = 14 /\ call.args.post_days = 14
    /\ Len(fetches) >= 2

TsSet(series) == {series[i].ts : i \in 1..Len(series)}
AtEventInstant(ts, event) ==
    DateOf(ts) = event /\ <<ts[4], ts[5], ts[6]>> = <<0, 0, 0>>

\* C4: within one call no point is in both the subject's pre-window series and
\* its post-window series, and a point stored for the subject at exactly the
\* event instant when the post-window is fetched is in the post-window series
\* and not in the pre-window series.
C4_DisjointWindows ==
    [][(pc = "fetching" /\ Len(fetches) = 1 /\ Len(fetches') = 2 /\ fetches'[2].ok) =>
          /\ TsSet(fetches'[1].series) \cap TsSet(fetches'[2].series) = {}
          /\ \A d \in db :
                (/\ d.coll = "traffic_ts"
                 /\ d.country = call.args.country
                 /\ d.metric = call.args.metric
                 /\ AtEventInstant(d.ts, call.args.event))
                => /\ d.ts \in TsSet(fetches'[2].series)
                   /\ d.ts \notin TsSet(fetches'[1].series)]_vars

Metrics == {"http_requests_norm", "l3_bytes_target"}
QueryBounds == Timestamps \cup {<<2025, 7, 24, 23, 59, 59, 0>>, <<2025, 8, 8, 0, 0, 0, 0>>}

StoredPoints(country, metric, since, until) ==
    {[ts |-> d.ts, value |-> d.value] :
        d \in {e \in db : /\ e.country = upper(country) /\ e.metric = metric
                          /\ TsLe(since, e.ts) /\ TsLe(e.ts, until)}}

\* C5: _find_series(entity, metric, since, until) returns exactly the stored
\* points of that entity and metric with since <= ts <= until, in ascending
\* timestamp order, the empty list when there is none.
C5_FindSeries ==
    \A country \in {"gb", "IE"}, metric \in Metrics, since \in QueryBounds, until \in QueryBounds :
        LET got == _find_series_in(db, country, metric, since, until)
        IN  /\ {got[i] : i \in 1..Len(got)} = StoredPoints(country, metric, since, until)
            /\ Len(got) = Cardinality(StoredPoints(country, metric, since, until))
            /\ \A i \in 1..(Len(got) - 1) : TsLt(got[i].ts, got[i + 1].ts)

\* a request the datetime arithmetic accepts, with a non-positive window
\* length or its own entity among its controls
InvalidRequest ==
    /\ pc # "idle"
    /\ req.event # None
    /\ call.w.exc = None
    /\ \/ call.args.pre_days <= 0
       \/ call.args.post_days <= 0
       \/ \E i \in 1..Len(call.args.controls) : call.args.controls[i] = call.args.country

\* C6: a request with non-positive pre_days or post_days, or whose entity is in
\* its own controls, is rejected before any fetch and answered with a client
\* error; it is never computed.
C6_InvalidRejected ==
    InvalidRequest =>
        /\ fetches = <<>>
        /\ pc = "responded"
        /\ resp.status \in 400..499

\* C7: a window-stats request with no event parameter is answered 400 without
\* any fetch and without a default event date: compute_window_stats is not
\* called.
C7_MissingEvent ==
    (pc # "idle" /\ req.event = None) =>
        /\ pc = "responded"
        /\ resp.status = 400
        /\ resp.report = <<>>
        /\ fetches = <<>>
        /\ call = NoCall

\* a request without event, answered 400
C7_Witness ==
    /\ pc = "responded"
    /\ req.event = None
    /\ req.controls # <<>>
    /\ resp.status = 400

\* C8: when a fetch of the call fails (subject or control, pre- or post-window,
\* or a controls_detail count), the call fails with that error, returns no
\* report, and issues no further fetch: the failed fetch is not retried.
C8_FetchFailureAborts ==
    \A i \in 1..Len(fetches) :
        ~fetches[i].ok =>
            /\ i = Len(fetches)
            /\ pc = "responded"
            /\ resp.exc = SourceUnavailable
            /\ resp.status # 200
            /\ resp.report = <<>>

\* a call ended by the failure of a controls_detail fetch
C8_Witness ==
    /\ pc = "responded"
    /\ fetches # <<>>
    /\ ~fetches[Len(fetches)].ok
    /\ fetches[Len(fetches)].role = "detail"
    /\ resp.report = <<>>

WellFormedEvent == req.event # None /\ IsDate(req.event) /\ req.event[1] \in MINYEAR..MAXYEAR
PositiveDays == call.args.pre_days > 0 /\ call.args.post_days > 0
EventOrdinal == ToOrdinal(req.event[1], req.event[2], req.event[3])
WindowsInRange ==
    /\ EventOrdinal - call.args.pre_days >= 1
    /\ EventOrdinal + call.args.post_days <= MaxOrdinal

MissingShowsAsNone ==
    /\ Report.mean_pre = None <=> fetches[1].series = <<>>
    /\ Report.mean_post = None <=> fetches[2].series = <<>>
    /\ (fetches[1].series = <<>> \/ fetches[2].series = <<>>) => Report.pct_delta = None
    /\ (\A i \in 1..Len(fetches) : fetches[i].role = "control" => fetches[i].series = <<>>)
          => Report.z_score_vs_controls = None

\* C9 as stated: for any well-formed event date and positive window lengths the
\* call whose fetches do not fail returns a report and never raises.
C9_NeverRaises ==
    (pc = "responded" /\ WellFormedEvent /\ PositiveDays /\ AllOk) =>
        /\ resp.status = 200
        /\ resp.report # <<>>
        /\ MissingShowsAsNone

\* C9, amended: for a well-formed event date and positive window lengths whose
\* bounds E - pre_days days and E + post_days days lie within the years 1 to
\* 9999, the call whose fetches do not fail returns a report and never raises;
\* missing data shows only as None in mean_pre, mean_post, pct_delta or
\* z_score_vs_controls.
C9_NeverRaisesInRange ==
    (pc = "responded" /\ WellFormedEvent /\ PositiveDays /\ WindowsInRange /\ AllOk) =>
        /\ resp.status = 200
        /\ resp.report # <<>>
        /\ MissingShowsAsNone

\* a report of a call with a control that found no data at all
C9_Witness ==
    /\ HasReport
    /\ WellFormedEvent /\ PositiveDays /\ WindowsInRange
    /\ call.args.controls # <<>>
    /\ \A i \in 1..Len(fetches) : fetches[i].series = <<>>
    /\ Report.mean_pre = None /\ Report.mean_post = None
    /\ Report.pct_delta = None /\ Report.z_score_vs_controls = None

CountRole(roles) == Cardinality({i \in 1..Len(fetches) : fetches[i].role \in roles})

\* C10: one call issues exactly 2 subject fetches, one per window, plus at
\* most 2 x |controls| control fetches, one after the other, and returns.
C10_FetchCount ==
    (pc # "idle" /\ req.event # None /\ call.w.exc = None /\ ~InvalidRequest) =>
        /\ CountRole({"subject"}) <= 2
        /\ CountRole({"control", "detail"}) <= 2 * Len(call.args.controls)
        /\ HasReport => CountRole({"subject"}) = 2

\* C11: a call without controls returns z_score_vs_controls = None and an empty
\* controls_detail, whatever the subject's data, after its two subject fetches.
C11_NoControls ==
    (HasReport /\ call.args.controls = <<>>) =>
        /\ Report.z_score_vs_controls = None
        /\ DOMAIN Report.controls_detail = {}
        /\ Report.controls = <<>>
        /\ Len(fetches) = 2

\* a report without controls over a subject with data in both windows
C11_Witness ==
    /\ HasReport
    /\ req.controls = <<>>
    /\ Report.mean_pre # None /\ Report.mean_post # None /\ Report.pct_delta # None
    /\ Report.z_score_vs_controls = None
    /\ DOMAIN Report.controls_detail = {}

\* The diff series of a window, from the fetched series: the rows are the
\* timestamps at which the subject and at least one control have a point.
SubjectSeries(win) == fetches[IF win = "pre" THEN 1 ELSE 2].series
ControlFetches(win) ==
    {i \in 1..Len(fetches) : fetches[i].role = "control" /\ fetches[i].win = win}
ValueAt(series, ts) == series[CHOOSE i \in 1..Len(series) : series[i].ts = ts].value
CtrlsAt(win, ts) == {i \in ControlFetches(win) : ts \in TsSet(fetches[i].series)}
DiffRows(win) == {ts \in TsSet(SubjectSeries(win)) : CtrlsAt(win, ts) # {}}

RECURSIVE SumAt(_, _)
SumAt(I, ts) ==
    IF I = {} THEN 0
    ELSE LET i == CHOOSE j \in I : TRUE
         IN  ValueAt(fetches[i].series, ts) + SumAt(I \ {i}, ts)

DiffAt(win, ts) ==
    RSub(RInt(ValueAt(SubjectSeries(win), ts)),
         Rat(SumAt(CtrlsAt(win, ts), ts), Cardinality(CtrlsAt(win, ts))))

\* C12: with controls given, when the pre-window or the post-window has no row
\* at which the subject and a control both have a point (its diff series is
\* empty), z_score_vs_controls is None.
C12_EmptyDiffs ==
    (HasReport /\ call.args.controls # <<>>
       /\ (DiffRows("pre") = {} \/ DiffRows("post") = {})) =>
        Report.z_score_vs_controls = None

\* a report whose pre-window diffs vary while the post-window has subject
\* points but no diff row
C12_Witness ==
    /\ HasReport
    /\ call.args.controls # <<>>
    /\ \E t, u \in DiffRows("pre") : DiffAt("pre", t) # DiffAt("pre", u)
    /\ SubjectSeries("post") # <<>>
    /\ DiffRows("post") = {}
    /\ Report.z_score_vs_controls = None

\* z stands for the quotient z[1] / sqrt(z[2]): it equals the integer k > 0
\* when z[1] > 0 and z[1]^2 = k^2 * z[2]
ZEquals(z, k) == z # None /\ z[1][1] > 0 /\ RMul(z[1], z[1]) = RMul(RInt(k * k), z[2])

AllSame(ds) == \A i, j \in 1..Len(ds) : ds[i] = ds[j]

\* C13: when both diff series are non-empty, z_score_vs_controls is a number
\* exactly when the pre-window diffs are not all identical (their population
\* standard deviation is > 0), and None when they are all identical, a single
\* pre-window diff included; pre diffs [10, 20] and post diff [110] give 19.
C13_ZScore ==
    (stat.done /\ diffs.pre # <<>> /\ diffs.post # <<>>) =>
        /\ AllSame(diffs.pre) => stat.z = None
        /\ ~AllSame(diffs.pre) => stat.z # None
        /\ (diffs.pre = <<RInt(10), RInt(20)>> /\ diffs.post = <<RInt(110)>>)
              => ZEquals(stat.z, 19)

\* the series fetched over one window, in the order of their fetches
WinFetches(win) == SelectSeq(fetches, LAMBDA f : f.win = win)
WinList(win) == SeriesOf(WinFetches(win))

\* the frame of series_list has one row per timestamp of any input and no
\* other, and every row has one slot per input: the input's value at the
\* row's timestamp, None when it has no point there
AlignOk(series_list) ==
    LET aligned == _align_by_ts(series_list)
        inputs == 1..Len(series_list)
    IN  /\ DOMAIN aligned = UNION {TsSet(series_list[k]) : k \in inputs}
        /\ (\A k \in inputs : series_list[k] = <<>>) => DOMAIN aligned = {}
        /\ \A ts \in DOMAIN aligned :
              /\ Len(aligned[ts]) = Len(series_list)
              /\ \A k \in inputs :
                    aligned[ts][k] = IF ts \in TsSet(series_list[k])
                                     THEN RInt(ValueAt(series_list[k], ts))
                                     ELSE None

\* C14: for any list of input series, empty ones included, _align_by_ts
\* returns a frame with exactly one row per distinct timestamp of any input
\* (no row, and no error, when every input is empty), every row as long as
\* the list of inputs.
C14_AlignFrame ==
    /\ AlignOk(SeriesOf(fetches))
    /\ AlignOk(WinList("pre"))
    /\ AlignOk(WinList("post"))

\* three or more post-window series all empty, and pre-window series of two,
\* one and no point that share a timestamp
C14_Witness ==
    /\ Len(WinList("post")) >= 3
    /\ \A k \in 1..Len(WinList("post")) : WinList("post")[k] = <<>>
    /\ _align_by_ts(WinList("post")) = <<>>
    /\ \E i, j, k \in 1..Len(WinList("pre")) :
          /\ Len(WinList("pre")[i]) = 2
          /\ Len(WinList("pre")[j]) = 1
          /\ WinList("pre")[k] = <<>>
    /\ Cardinality(DOMAIN _align_by_ts(WinList("pre"))) = 2

RECURSIVE DiffSum(_, _)
DiffSum(S, win) ==
    IF S = {} THEN RInt(0)
    ELSE LET t == CHOOSE u \in S : TRUE
         IN  RAdd(DiffAt(win, t), DiffSum(S \ {t}, win))

DiffMean(win) == RDiv(DiffSum(DiffRows(win), win), RInt(Cardinality(DiffRows(win))))

RECURSIVE SquareSum(_, _)
SquareSum(S, win) ==
    IF S = {} THEN RInt(0)
    ELSE LET t == CHOOSE u \in S : TRUE
             dev == RSub(DiffAt(win, t), DiffMean(win))
         IN  RAdd(RMul(dev, dev), SquareSum(S \ {t}, win))

DiffVar(win) == RDiv(SquareSum(DiffRows(win), win), RInt(Cardinality(DiffRows(win))))

\* the z-score of the diff rows, from the subject's and the controls' series
ZOfRows ==
    IF DiffRows("pre") # {} /\ DiffRows("post") # {} /\ DiffVar("pre")[1] > 0
    THEN <<RSub(DiffMean("post"), DiffMean("pre")), DiffVar("pre")>>
    ELSE None

\* the points the source holds for a country and the call's metric in a window
HeldIn(country, win) ==
    {d \in db : /\ d.coll = "traffic_ts"
                 /\ d.country = country
                 /\ d.metric = call.args.metric
                 /\ TsLe(Since(call.w, win), d.ts)
                 /\ TsLe(d.ts, Until(call.w, win))}

\* C17: with controls given, controls_detail has one entry per control, whose
\* pre_points and post_points count the points the source holds for that
\* control in the pre- and post-window, whether or not they make a diff row
\* and also when there is none; z_score_vs_controls is the z-score of the diff
\* rows whatever the counts.
C17_ControlsDetail ==
    (HasReport /\ call.args.controls # <<>>) =>
        /\ DOMAIN Report.controls_detail =
               {call.args.controls[i] : i \in 1..Len(call.args.controls)}
        /\ \A c \in DOMAIN Report.controls_detail :
              /\ Report.controls_detail[c].pre_points = Cardinality(HeldIn(c, "pre"))
              /\ Report.controls_detail[c].post_points = Cardinality(HeldIn(c, "post"))
        /\ Report.z_score_vs_controls = ZOfRows

\* a report counting a control's pre-window point that makes no diff row (the
\* subject has no point there) next to a control without any point
C17_Witness ==
    /\ HasReport
    /\ Report.controls = <<"IE", "NL">>
    /\ Report.controls_detail["IE"].pre_points = 1
    /\ DiffRows("pre") = {}
    /\ Report.controls_detail["NL"] = [pre_points |-> 0, post_points |-> 0]
    /\ Report.mean_post # None

\* C16: the call only reads the source: no step of a call, answered or
\* failed, changes the set of stored points.
C16_ReadOnly == [][db' = db]_vars

\* a call that failed after fetching stored points, and a store still holding
\* them
C16_Witness ==
    /\ pc = "responded"
    /\ resp.status = 500
    /\ Len(fetches) >= 3
    /\ fetches[1].series # <<>>
    /\ \A i \in 1..Len(fetches[1].series) :
          \E d \in db : d.country = "GB" /\ d.ts = fetches[1].series[i].ts

\* the response of the request r served alone against the store as it is
RunAlone(r) ==
    LET out == handle_request(r)
        plan == FetchPlan(out.call.args)
    IN  IF out.pc = "responded" THEN out.resp
        ELSE compute_result(out.call.args,
                 [i \in 1..Len(plan) |->
                     _find_series_in(db, plan[i].country, out.call.args.metric,
                                     Since(out.call.w, plan[i].win),
                                     Until(out.call.w, plan[i].win))])

C18_Parallel ==
    \A t \in Threads :
        threads[t].pc = "responded" => threads[t].resp = RunAlone(threads[t].req)

\* thread 1 has answered through the client it made while thread 2, which
\* found no client before thread 1 made its own, is still in its call, for a
\* different request
C18_Witness ==
    /\ threads[1].pc = "responded"
    /\ threads[1].resp.report # <<>>
    /\ threads[1].resp.report[1].mean_pre # None
    /\ _CLIENT = <<1>>
    /\ threads[2].pc = "connecting"
    /\ threads[2].req # threads[1].req

\* the dates for which the country of the last call has a record
DatesHeld == {d.date : d \in {e \in domain_rank : e.country = upper(top.country)}}

\* C19: with no day requested, top_domains_for_day resolves the day to the
\* greatest date, by the order of the date strings and so by the calendar, for
\* which the country has any domain_rank record, and returns day None and no
\* rows when the country has no record at all.
C19_LatestDay ==
    (top.called /\ top.date = None) =>
        IF DatesHeld = {}
        THEN top.day = None /\ top.rows = <<>>
        ELSE /\ top.day \in DatesHeld
             /\ \A x \in DatesHeld :
                   /\ TsLe(x, top.day)
                   /\ ToOrdinal(x[1], x[2], x[3]) <= ToOrdinal(top.day[1], top.day[2], top.day[3])
             /\ \A i \in 1..Len(top.rows) :
                   top.rows[i].country = upper(top.country) /\ top.rows[i].date = top.day

\* a call without a day for GB, which has records of two days, while IE has
\* records of a later day
C19_Witness ==
    /\ top.called /\ top.date = None /\ top.country = "gb"
    /\ Cardinality(DatesHeld) = 2
    /\ \E d \in domain_rank : d.country = "IE" /\ d.date = <<2025, 11, 30>>
    /\ top.day = <<2025, 10, 1>>
    /\ top.rows # <<>>

\* the points an upstream result carries, as a list of [t, value]
Carried(result) ==
    IF result.shape \in {"main", "root"}
    THEN [i \in 1..Len(result.timestamps) |->
             [t |-> result.timestamps[i],
              value |-> IF i <= Len(result.values) THEN result.values[i] ELSE RawNull]]
    ELSE result.rows

\* n points with a timestamp and a number each, the timestamps distinct
WellFormedBatch(result) ==
    LET pts == Carried(result)
    IN  /\ result.shape # "none"
        /\ Len(result.timestamps) = Len(result.values)
        /\ \A i \in 1..Len(pts) : pts[i].t # None /\ pts[i].value.kind = "num"
        /\ \A i, j \in 1..Len(pts) : pts[i].t = pts[j].t => i = j

\* the documents the last run's batch makes under its country and metric
BatchDocs ==
    LET pts == Carried(ingested.up.result)
        target == TargetOf(ingested.fn, ingested.direction)
    IN  {[coll |-> target.coll, country |-> upper(ingested.country),
          metric |-> target.metric, ts |-> pts[i].t, value |-> pts[i].value.v] :
            i \in 1..Len(pts)}

HealthBody == served.body

\* C21: GET /api/health answers 200 with a JSON object whose status field is
\* "ok" and whose env field is one of testing, development, production.
C21_Health ==
    served # NoServed =>
        /\ served.code = 200
        /\ "status" \in DOMAIN HealthBody
        /\ HealthBody.status = "ok"
        /\ "env" \in DOMAIN HealthBody
        /\ HealthBody.env \in {"testing", "development", "production"}

\* what the handler does answer: 200, ok = True, and the environment name
\* one level down, in env.flask_env
C21_Answered ==
    served # NoServed =>
        /\ served.code = 200
        /\ HealthBody.ok = TRUE
        /\ HealthBody.env.flask_env \in {"testing", "development", "production"}

\* the series handed to _period_stats for a window: the subject's, then the
\* controls', and the diffs it draws from their frame
PeriodList(win) ==
    SeriesOf(SelectSeq(fetches, LAMBDA f : f.win = win /\ f.role # "detail"))
PeriodDiffs(win) ==
    LET aligned == _align_by_ts(PeriodList(win))
    IN  DiffsOf(aligned, SortedTs(DOMAIN aligned))

\* C22: in the z-score computation a row of the frame contributes a diff
\* exactly when the subject has a point at its timestamp and at least one
\* control has one; the diff is the subject's value minus the mean of the
\* values of the controls that have a point there.  Rows without the subject
\* or without any control contribute nothing, and a control without a point
\* is left out of the mean, not counted as 0.
C22_DiffRows ==
    (HasReport /\ call.args.controls # <<>>) =>
        \A win \in {"pre", "post"} :
            LET rows == SortedTs(DiffRows(win))
            IN  /\ Len(PeriodDiffs(win)) = Len(rows)
                /\ \A k \in 1..Len(rows) : PeriodDiffs(win)[k] = DiffAt(win, rows[k])

\* a report over two controls whose pre-window frame has a row where only one
\* control, at a value other than 0, stands next to the subject, a row with a
\* control but not the subject, and fewer diffs than rows
C22_Witness ==
    /\ HasReport
    /\ Len(call.args.controls) = 2
    /\ \E ts \in DiffRows("pre") :
          /\ Cardinality(CtrlsAt("pre", ts)) = 1
          /\ \E i \in CtrlsAt("pre", ts) : ValueAt(fetches[i].series, ts) # 0
    /\ \E i \in ControlFetches("pre") :
          \E ts \in TsSet(fetches[i].series) : ts \notin TsSet(SubjectSeries("pre"))
    /\ Len(PeriodDiffs("pre")) < Cardinality(DOMAIN _align_by_ts(PeriodList("pre")))

\* the points of a series at exactly the timestamp ts
PointsAt(series, ts) == {j \in 1..Len(series) : series[j].ts = ts}

\* every slot of the frame of series_list holds the value its own series has
\* at exactly the row's timestamp, or None; the rows ascend
SlotsExact(series_list) ==
    LET items == aligned_items(_align_by_ts(series_list))
    IN  /\ \A k \in 1..(Len(items) - 1) : TsLt(items[k].ts, items[k + 1].ts)
        /\ \A k \in 1..Len(items) : \A i \in 1..Len(series_list) :
              LET at == PointsAt(series_list[i], items[k].ts)
                  slot == items[k].vect[i]
              IN  /\ at = {} <=> slot = None
                  /\ at # {} => \E j \in at : slot = RInt(series_list[i][j].value)

\* C23: in the frame of _align_by_ts, slot i of the row of timestamp t holds
\* the value of input series i at exactly t (the same string) when the series
\* has a point there and None otherwise, never 0 for a missing point and
\* never a value of another timestamp or series; the rows are keyed in
\* ascending timestamp order.
C23_AlignSlots ==
    /\ SlotsExact(PeriodList("pre"))
    /\ SlotsExact(PeriodList("post"))

\* a pre-window frame of three series with a row at "2025-07-24T23:00:00" and
\* the next at "2025-07-24T23:00:00Z", each holding only its own series'
\* point, under a series that has an earlier point but none at either, and a
\* stored 0 in a slot
C23_Witness ==
    LET items == aligned_items(_align_by_ts(PeriodList("pre")))
    IN  /\ Len(PeriodList("pre")) = 3
        /\ \E k \in 1..(Len(items) - 1) :
              /\ items[k].ts = TsQ /\ items[k + 1].ts = TsP
              /\ items[k].vect = <<None, None, RInt(30)>>
              /\ items[k + 1].vect[1] = None
              /\ items[k + 1].vect[2] = RInt(10)
              /\ items[k + 1].vect[3] = None
        /\ items[1].ts = TsA
        /\ items[1].vect = <<RInt(10), RInt(0), None>>

\* the points the last batch carries: the timestamp and the value each one
\* states (a row's value, or its requests.normalized)
BatchPoints ==
    LET r == batch.result
    IN  IF r.shape \in {"main", "root"}
        THEN [i \in 1..Len(r.timestamps) |->
                 [t |-> r.timestamps[i],
                  raw |-> IF i <= Len(r.values) THEN r.values[i] ELSE RawNull]]
        ELSE [i \in 1..Len(r.rows) |->
                 [t |-> r.rows[i].t,
                  raw |-> IF r.rows[i].value.kind # "null" THEN r.rows[i].value
                          ELSE r.rows[i].normalized]]

\* a point without a timestamp or without a number for a value
Malformed(pt) == pt.t = None \/ pt.raw.kind # "num"

\* the points of the batch that are well formed and whose write succeeds
KeptPoints ==
    {i \in 1..Len(BatchPoints) :
        ~Malformed(BatchPoints[i]) /\ BatchPoints[i].t \notin batch.unwritable}

KeptDoc(i) == HttpDoc(BatchPoints[i].t, BatchPoints[i].raw.v)

\* C25: while a batch is parsed and stored, a point that is malformed (no
\* timestamp, no value, a value that is no number) or whose write fails is
\* skipped without raising; every other point of the batch is stored, and the
\* returned total counts no skipped point: it counts the other points that
\* were new or changed a stored value.
C25_SkipMalformed ==
    batch.done =>
        /\ \A i \in KeptPoints : KeptDoc(i) \in db
        /\ db \ batch.before \subseteq {KeptDoc(i) : i \in KeptPoints}
        /\ \A d \in batch.before :
              d \in db \/ \E i \in KeptPoints : SameKey(d, KeptDoc(i))
        /\ batch.returned = Cardinality({i \in KeptPoints : KeptDoc(i) \notin batch.before})

\* what does hold: each parsed point whose write succeeds is stored, nothing
\* else is written, and the total counts the parsed points that were new or
\* changed a value
C25_ParsedStored ==
    batch.done =>
        LET kept == {i \in 1..Len(batch.parsed) : batch.parsed[i].ts \notin batch.unwritable}
            doc(i) == HttpDoc(batch.parsed[i].ts, batch.parsed[i].value)
        IN  /\ \A i \in kept : doc(i) \in db
            /\ db \ batch.before \subseteq {doc(i) : i \in kept}
            /\ batch.returned = Cardinality({i \in kept : doc(i) \notin batch.before})

\* the points the last run parsed from its upstream result, and where it
\* wrote them
RunParsed == _parse_timeseries_data(ingested.up.result)
RunTarget == TargetOf(ingested.fn, ingested.direction)
RunDoc(i) ==
    [coll |-> RunTarget.coll, country |-> upper(ingested.country),
     metric |-> RunTarget.metric, ts |-> RunParsed[i].ts, value |-> RunParsed[i].value]

\* the last point of the run's batch at the timestamp of point i
LastAt(i) ==
    CHOOSE j \in 1..Len(RunParsed) :
        /\ RunParsed[j].ts = RunParsed[i].ts
        /\ \A k \in 1..Len(RunParsed) : RunParsed[k].ts = RunParsed[i].ts => k <= j

\* the series a fetch of everything stored for a country and metric returns
WholeSeries(coll, country, metric) ==
    SortByTs({d \in db : d.coll = coll /\ d.country = country /\ d.metric = metric})

C29_Fallback ==
    ingested.done =>
        /\ Len(ingested.sent) = ingested.requests
        /\ ingested.sent[1] = {"dateStart", "dateEnd"}
        /\ ingested.up.first = "ok" <=> ingested.requests = 1
        /\ ingested.up.first = "fail" =>
              /\ ingested.requests = 2
              /\ ingested.sent[2] = {"dateRange"}
        /\ (ingested.up.first = "fail" /\ ingested.up.second = "fail") <=>
              ingested.raised # None
        /\ ingested.raised # None => db = ingested.before /\ ingested.returned = 0

\* a bots run whose two requests failed over a store that stays as it was, its
\* upstream result carrying points
C29_Witness ==
    /\ ingested.done
    /\ ingested.fn = "fetch_bot_traffic"
    /\ ingested.requests = 2
    /\ ingested.raised = RuntimeError
    /\ ingested.before # {}
    /\ db = ingested.before
    /\ Len(RunParsed) = 2

\* the value stored under point i's key just before point i is written: the
\* one of the nearest earlier point of the batch at that timestamp, else the
\* one the store held before the run, else none
PriorValue(i) ==
    LET earlier == {j \in 1..(i - 1) : RunParsed[j].ts = RunParsed[i].ts}
        held == {d \in ingested.before : SameKey(d, RunDoc(i))}
    IN  IF earlier # {}
        THEN <<RunParsed[CHOOSE j \in earlier : \A k \in earlier : k <= j].value>>
        ELSE IF held # {} THEN <<(CHOOSE d \in held : TRUE).value>>
        ELSE <<>>

ChangingWrites == {i \in 1..Len(RunParsed) : PriorValue(i) # <<RunParsed[i].value>>}

DistinctTimestamps ==
    \A i, j \in 1..Len(RunParsed) : RunParsed[i].ts = RunParsed[j].ts => i = j

\* a run that stores again, right after it, the batch the run before stored
StoredAgain ==
    /\ ingested.done
    /\ ingested.raised = None
    /\ ingested'.runs = ingested.runs + 1
    /\ ingested'.raised = None
    /\ ingested'.fn = ingested.fn
    /\ ingested'.country = ingested.country
    /\ ingested'.direction = ingested.direction
    /\ ingested'.up.result = ingested.up.result

RowsWith(status) == {i \in 1..Len(gated.items) : gated.items[i].age_gate.status = status}

\* the domains the curated table marks yes, in the spellings of the store
GatedYes == {"reddit.com", "X.COM", "WWW.Reddit.com"}

\* C26: in every result of top_domains_with_age_gate each row's
\* age_gate.status is yes, unknown or no (unknown for a domain the curated
\* table does not list), each of the three counts is the number of rows with
\* that status, and the counts sum to the number of rows.
C26_AgeGateCounts ==
    gated.called =>
        /\ \A i \in 1..Len(gated.items) :
              /\ gated.items[i].age_gate.status \in {"yes", "unknown", "no"}
              /\ gated.items[i].age_gate.status =
                    IF gated.items[i].doc.domain \in GatedYes THEN "yes" ELSE "unknown"
        /\ \A status \in {"yes", "unknown", "no"} :
              gated.counts[status] = Cardinality(RowsWith(status))
        /\ gated.counts.yes + gated.counts.unknown + gated.counts.no = Len(gated.items)

\* a result of six rows: three gated (one through the www. prefix, one by
\* lower-casing), one listed as unknown and two the table does not list
C26_Witness ==
    /\ gated.called
    /\ Len(gated.items) = 6
    /\ gated.counts = [yes |-> 3, unknown |-> 3, no |-> 0]
    /\ \E i \in RowsWith("unknown") : gated.items[i].doc.domain = "www.example.org"
    /\ \E i \in RowsWith("yes") : gated.items[i].doc.domain = "WWW.Reddit.com"

\* the fetches of the report's controls: control i's series as handed to the
\* alignment, and as counted for controls_detail
AlignedFetch(i, win) ==
    fetches[2 + (IF win = "pre" THEN 0 ELSE Len(call.args.controls)) + i]

\* C27: also when ingestion writes interleave with a running
\* compute_window_stats call, the pre_points and post_points that
\* controls_detail reports for a control are the numbers of points of that
\* control that went into the pre- and post-window alignment behind
\* z_score_vs_controls in the same report.
C27_DetailMatchesAlignment ==
    (HasReport /\ call.args.controls # <<>>) =>
        \A i \in 1..Len(call.args.controls) :
            LET detail == Report.controls_detail[call.args.controls[i]]
            IN  /\ detail.pre_points = Len(AlignedFetch(i, "pre").series)
                /\ detail.post_points = Len(AlignedFetch(i, "post").series)

\* C28: for every metric name, those starting with l3_ or bot_ included, the
\* series compute_window_stats reads for (country, metric, since, until) is
\* the list of points the /api/timeseries fetch returns for the same country,
\* metric, since and until.
C28_SameSeries ==
    [][(Len(fetches') = Len(fetches) + 1 /\ fetches'[Len(fetches')].ok) =>
          LET f == fetches'[Len(fetches')]
          IN  f.series = api_find_series_in(db, f.country, f.metric, f.since, f.until)]_vars

====
